---- MODULE Spec2Model ----
(***************************************************************************)
(* VaultIntegrationService of the GM AI plugin (owlbear-gm-ia).            *)
(*                                                                         *)
(* The source tree holds two revisions of the class that talk to the room  *)
(* environment (OBR):                                                      *)
(*   "wait": src/js/services/VaultIntegrationService.js, lines 163-424.    *)
(*           requestVaultFromGM sends a broadcast request and waits for a  *)
(*           reply, bounded by a 5 s timer (_pendingRequest).              *)
(*   "meta": src/unnamed/part_005, lines 16-261.  requestVaultFromGM reads *)
(*           the room metadata and sends the broadcast fire-and-forget;    *)
(*           _processVaultConfig walks nested categories.                  *)
(* The variable revision says which of the two is running; definitions     *)
(* prefixed Bc_ model the first, definitions prefixed Rm_ the second.      *)
(*                                                                         *)
(* JavaScript values are modelled as records of one shape per kind, so     *)
(* that any two of them can be compared:                                   *)
(*   a config   [truthy, hasCategories, isArray, categories]               *)
(*              hasCategories: config.categories is truthy; isArray: it is *)
(*              an array                                                   *)
(*   a category [name, pages, categories]   ("" is a missing name,         *)
(*                                           <<>> a missing/empty array)   *)
(*   a page     [id, title, visible, url, icon]                            *)
(*              visible is "true", "false" or "absent"; "" is a missing    *)
(*              title, url or icon                                         *)
(*   a snapshot [present, categories, pages]; present = FALSE is null.     *)
(***************************************************************************)
EXTENDS Naturals, Sequences, FiniteSets, TLC

\* Bounds of the model.
MaxCalls == 2        \* requestVaultFromGM invocations per behaviour
MaxInits == 2        \* init(obr) invocations per behaviour

Calls == 1..MaxCalls

\* The recurring refresh is followed for MaxIntervals intervals and
\* MaxStarts calls of its start routine.
MaxIntervals == 3

MaxStarts == 2

\* _sendMessage invocations that can be running at once, and the usage
\* count up to which the day is followed.
MaxSends == 2

Sends == 1..MaxSends

MaxUsed == 12

\* The _sendMessage with the vault context is followed for MaxChats requests.
MaxChats == 2

\* The history of ChatService is followed up to MaxHistory messages, of
\* which MaxErrors are flagged as errors.
MaxHistory == 36

MaxErrors == 1

NoCall == 0

--------------------------------------------------------------------------
\* Input values

Page(id, title, visible, icon) ==
  [id |-> id, title |-> title, visible |-> visible, url |-> "", icon |-> icon]

Category(name, pages, categories) ==
  [name |-> name, pages |-> pages, categories |-> categories]

Config(categories) ==
  [truthy |-> TRUE, hasCategories |-> TRUE, isArray |-> TRUE,
   categories |-> categories]

\* No config at all (undefined / null / key absent).
NoConfig ==
  [truthy |-> FALSE, hasCategories |-> FALSE, isArray |-> FALSE,
   categories |-> <<>>]
\* An object without a categories field.
NoCategories ==
  [truthy |-> TRUE, hasCategories |-> FALSE, isArray |-> FALSE,
   categories |-> <<>>]
\* An object whose categories field is truthy but no array ({categories: 5}).
BadCategories ==
  [truthy |-> TRUE, hasCategories |-> TRUE, isArray |-> FALSE,
   categories |-> <<>>]

\* ["Zeta" -> [pageA], "Alpha" -> [pageB]]
CfgFlat ==
  Config(<< Category("Zeta", << Page("a", "Page A", "absent", "") >>, <<>>),
            Category("Alpha", << Page("b", "Page B", "true", "B") >>, <<>>) >>)
\* Region > City > P, with one page of Region itself
CfgNested ==
  Config(<< Category("Region", << Page("r", "", "absent", "") >>,
              << Category("City", << Page("p", "P", "absent", "") >>, <<>>) >>) >>)
\* an unnamed category holding a visible and a hidden page
CfgHidden ==
  Config(<< Category("", << Page("v", "Seen", "true", ""),
                            Page("h", "Hidden", "false", "") >>, <<>>) >>)
\* categories: []
CfgEmpty == Config(<<>>)

ValidConfigs == {CfgFlat, CfgNested, CfgHidden, CfgEmpty}
\* What a peer may put in the config field of a broadcast or under a key.
Payloads == {NoConfig, NoCategories} \cup ValidConfigs

IsValidConfig(config) == config.truthy /\ config.hasCategories

NoSnapshot == [present |-> FALSE, categories |-> <<>>, pages |-> <<>>]

--------------------------------------------------------------------------
\* _processVaultConfig, revision "wait"

\* category.pages.forEach(page => { if (page.visible !== false) push })
RECURSIVE Bc_pagesOf(_, _)
Bc_pagesOf(pages, category) ==
  IF pages = <<>> THEN <<>>
  ELSE LET page == Head(pages)
           entry == [id |-> page.id,
                     title |-> IF page.title # "" THEN page.title ELSE "Untitled",
                     category |-> IF category.name # "" THEN category.name
                                  ELSE "Uncategorized",
                     url |-> page.url, icon |-> page.icon]
       IN (IF page.visible # "false" THEN << entry >> ELSE <<>>)
            \o Bc_pagesOf(Tail(pages), category)

\* config.categories.forEach(category => ...): top level only
RECURSIVE Bc_extractPages(_)
Bc_extractPages(categories) ==
  IF categories = <<>> THEN <<>>
  ELSE Bc_pagesOf(Head(categories).pages, Head(categories))
         \o Bc_extractPages(Tail(categories))

\* The value of _cachedVaultData after _processVaultConfig(config), given
\* its value before.
Bc_processVaultConfig(config, cached) ==
  IF ~config.truthy \/ ~config.hasCategories
  THEN NoSnapshot
  ELSE IF ~config.isArray
  THEN cached       \* config.categories.forEach throws before the assignment
  ELSE [present |-> TRUE,
        categories |-> config.categories,
        pages |-> Bc_extractPages(config.categories)]

--------------------------------------------------------------------------
\* _processVaultConfig, revision "meta"

Rm_pageEntry(page, categoryName) ==
  [id |-> page.id,
   title |-> IF page.title # "" THEN page.title ELSE "Untitled",
   category |-> categoryName,
   url |-> page.url, icon |-> page.icon]

RECURSIVE Rm_pagesOf(_, _)
Rm_pagesOf(pages, categoryName) ==
  IF pages = <<>> THEN <<>>
  ELSE << Rm_pageEntry(Head(pages), categoryName) >>
         \o Rm_pagesOf(Tail(pages), categoryName)

Rm_categoryName(category, parentPath) ==
  IF parentPath # ""
  THEN parentPath \o " > "
         \o (IF category.name # "" THEN category.name ELSE "Uncategorized")
  ELSE (IF category.name # "" THEN category.name ELSE "Uncategorized")

\* extractPages(categories, parentPath), accumulating into vaultData
RECURSIVE Rm_extractPages(_, _, _)
Rm_extractPages(categories, parentPath, vaultData) ==
  IF categories = <<>> THEN vaultData
  ELSE LET category == Head(categories)
           categoryName == Rm_categoryName(category, parentPath)
           own == [vaultData EXCEPT
                     !.categories = Append(@, categoryName),
                     !.pages = @ \o Rm_pagesOf(category.pages, categoryName)]
           sub == Rm_extractPages(category.categories, categoryName, own)
       IN Rm_extractPages(Tail(categories), parentPath, sub)

\* Rm_processVaultConfig filling the object it already caches instead of a
\* fresh vaultData.
Rm_processVaultConfig_patch(config, cached) ==
  IF ~config.truthy \/ ~config.hasCategories
  THEN cached
  ELSE IF ~config.isArray
  THEN [present |-> TRUE, categories |-> <<>>, pages |-> <<>>]
  ELSE Rm_extractPages(config.categories, "",
                       [present |-> TRUE, categories |-> cached.categories,
                        pages |-> cached.pages])

\* The value of _cachedVaultData after _processVaultConfig(config), given
\* its value before.
Rm_processVaultConfig(config, cached) ==
  IF ~config.truthy \/ ~config.hasCategories
  THEN cached
  ELSE IF ~config.isArray
  THEN [present |-> TRUE, categories |-> <<>>, pages |-> <<>>]
  ELSE Rm_extractPages(config.categories, "",
                       [present |-> TRUE, categories |-> <<>>, pages |-> <<>>])

--------------------------------------------------------------------------
\* The room environment

\* room.getMetadata() as the service sees it: state is "value" (an object
\* with the keys below) or "throw" (the call failed).
Metadata(config, fullConfig, pagesConfig, summary) ==
  [state |-> "value", config |-> config, fullConfig |-> fullConfig,
   pagesConfig |-> pagesConfig, summary |-> summary]

EmptyMetadata == Metadata(NoConfig, NoConfig, NoConfig, NoConfig)
ReadThrows == [EmptyMetadata EXCEPT !.state = "throw"]

\* What the peer extension may have stored in the room, per revision: the
\* key 'com.dmscreen/config' (read by "wait"); 'com.dmscreen/fullConfig',
\* 'com.dmscreen/pagesConfig' (read by "meta") and a summary key that the
\* peer may publish as well.
RoomMetadataValues(rev) ==
  IF rev = "wait"
  THEN { Metadata(c, NoConfig, NoConfig, NoConfig) :
           c \in {NoConfig, NoCategories, CfgFlat} }
  ELSE { EmptyMetadata,
         Metadata(NoConfig, NoConfig, NoConfig, CfgNested),
         Metadata(NoConfig, CfgFlat, NoConfig, NoConfig),
         Metadata(NoConfig, NoConfig, CfgHidden, NoConfig),
         Metadata(NoConfig, CfgFlat, CfgHidden, CfgNested),
         Metadata(NoConfig, NoCategories, CfgHidden, NoConfig),
         Metadata(NoConfig, NoCategories, NoConfig, NoConfig),
         Metadata(NoConfig, NoConfig, BadCategories, NoConfig) }

\* The outcomes of one room.getMetadata() call: whatever the peer has stored
\* by then, or a failure.  The peer may rewrite the room at any time, so the
\* outcomes of successive reads are unrelated.
ReadOutcomes(rev) == RoomMetadataValues(rev) \cup {ReadThrows}

RequesterIds == {"", "me", "other"}

--------------------------------------------------------------------------
VARIABLES
  revision,         \* "wait" or "meta"
  OBR,              \* this.OBR: "null" or "obr"
  cachedVaultData,  \* this._cachedVaultData
  isListening,      \* this._isListening
  handlers,         \* handlers registered with OBR.broadcast.onMessage
  playerId,         \* this._playerId: "null" or "me"
  playerName,       \* this._playerName
  pendingRequest,   \* this._pendingRequest: NoCall or the call that owns it
  initPc,           \* position of the running init()
  initCall,         \* the requestVaultFromGM call init is awaiting
  initCount,        \* init(obr) invocations so far
  calls,            \* the requestVaultFromGM invocations
  lateReply,        \* channel of the last message that found no pending
                    \* wait after a call had completed ("none": none yet)
  invalidating,     \* the calls a running invalidateCache() is awaiting
  poll,             \* the recurring background refresh
  usedToday,        \* localStorage['gm-ia-used-<today>']
  tierCached,       \* TierService._cached, and whether _cacheExpiry is ahead
  sends,            \* the _sendMessage invocations
  refreshing,       \* some _refreshTier() awaits the fetch of its getTier()
  limitNotice,      \* the notice "free plan limit reached" is shown
  inputDisabled,    \* the chat input and the send button are disabled
  loadingEl,        \* this._loadingEl: "null" or "div", the placeholder
                    \* appendLoading() returned last
  loadingMsgs,      \* the elements with data-loading="true" in the chat
  useVault,         \* configService._useVault
  chatPc,           \* position of the _sendMessage of the revision with
                    \* the vault context: "idle" or "chat"
  chatRequest,      \* the body of the last request it gave to fetch
  chatCount,        \* its invocations that went to the backend so far
  apiCall,          \* the last ApiService.chat call: its base URL and
                    \* what fetch did
  apiResult,        \* what that call returned
  proxy,            \* the running or last invocation of the chat proxy
  messages          \* ChatService._messages

vars == << revision, OBR, cachedVaultData, isListening, handlers, playerId,
           playerName, pendingRequest, initPc, initCall, initCount, calls,
           lateReply, invalidating, poll, usedToday, tierCached, sends, refreshing,
           limitNotice, inputDisabled, loadingEl, loadingMsgs, useVault,
           chatPc, chatRequest, chatCount, apiCall, apiResult, proxy,
           messages >>

\* The variables of the polling loop and of the freemium tier.
pollVars == << poll >>

tierVars ==
  << usedToday, tierCached, sends, refreshing, limitNotice, inputDisabled,
     loadingEl, loadingMsgs >>

\* The variables of the _sendMessage that sends the vault context.
chatVars == << useVault, chatPc, chatRequest, chatCount >>

\* The variable of the chat proxy and the one of ChatService.
proxyVars == << proxy >>

historyVars == << messages >>

\* The variables of ApiService.chat.
apiVars == << apiCall, apiResult >>

\* The variables of the services beside the chat.
serviceVars == << apiVars, proxyVars, historyVars >>

\* The variables of VaultIntegrationService.
vaultVars ==
  << revision, OBR, cachedVaultData, isListening, handlers, playerId,
     playerName, pendingRequest, initPc, initCall, initCount, calls,
     lateReply, invalidating >>

\* One requestVaultFromGM invocation: pc is "unused", "reading" (awaiting
\* getMetadata), "waiting" (awaiting the broadcast reply) or "done"; result
\* is what the promise resolved to; timer is the 5 s timeout being armed;
\* events lists what happened to it, in order; found is what
\* _loadFromRoomMetadata returned.
UnusedCall ==
  [pc |-> "unused", result |-> "none", timer |-> FALSE, events |-> <<>>,
   found |-> "none"]

FreeCall(c) == calls[c].pc = "unused" /\ \A d \in Calls : d < c => calls[d].pc # "unused"

\* The polling loop before it is started: timers is the number of active
\* interval timers, starts the calls of the start routine, intervals the
\* intervals that elapsed with a timer active, refreshes the reads they
\* caused and callbacks the invocations of the vault-changed callback.
NoPoll ==
  [timers |-> 0, starts |-> 0, intervals |-> 0, refreshes |-> 0, callbacks |-> 0]

\* this._cached = null; this._cacheExpiry = 0
NoTier == [present |-> FALSE, tier |-> "none", dailyLimit |-> 0, fresh |-> FALSE]

\* No chat request was sent yet.
NoRequest == [sent |-> FALSE, vaultContext |-> ""]

\* chatPanel.getInputValue(): the trimmed text of the input.
Texts == { "", "hi" }

\* JavaScript values of the answer of the backend: undefined, a number, a
\* string, or an object with the fields message and code (strings,
\* "" where the field is absent).
JsUndefined == [kind |-> "undefined", value |-> "", message |-> "", code |-> ""]

JsNumber == [kind |-> "number", value |-> "7", message |-> "", code |-> ""]

JsString(value) == [kind |-> "string", value |-> value, message |-> "", code |-> ""]

JsObject(message, code) ==
  [kind |-> "object", value |-> "", message |-> message, code |-> code]

\* x is truthy (the number of the model is not 0).
JsTruthy(x) ==
  \/ x.kind \in {"number", "object"}
  \/ x.kind = "string" /\ x.value # ""

\* a || b
JsOr(a, b) == IF JsTruthy(a) THEN a ELSE b

\* The event of a proxy invocation: its method, what event.body is
\* ("invalid": no JSON; "noMessages": '' or an object without messages;
\* "notArray"; "emptyMessages"; "ok": a non-empty messages array) and the
\* model field of the body.
ProxyEvent(httpMethod, body, model) ==
  [httpMethod |-> httpMethod, body |-> body, model |-> model]

\* What the upstream service answered to one call (fetch: "none" where no
\* call was made).
NoAnswer ==
  [fetch |-> "none", ok |-> FALSE, json |-> "", error |-> JsUndefined]

\* The proxy before its first invocation: pc is "idle", "first" or "second"
\* (awaiting that upstream call) or "done"; calls lists the models of the
\* upstream calls made; first is the answer to the first call.
NoInvocation ==
  [pc |-> "idle", event |-> ProxyEvent("", "", JsUndefined), apiKey |-> "",
   calls |-> << >>, first |-> NoAnswer, statusCode |-> 0]

\* No ApiService.chat call was made yet, and nothing returned.
NoResponse ==
  [fetch |-> "none", rejectMessage |-> "", status |-> "", json |-> "",
   error |-> JsUndefined, message |-> JsUndefined, limitReached |-> FALSE,
   hasChoice |-> FALSE, choiceContent |-> JsUndefined, content |-> JsUndefined]

NoApiCall == [made |-> FALSE, base |-> "", response |-> NoResponse]

NoApiResult ==
  [returned |-> FALSE, raised |-> FALSE, content |-> JsUndefined,
   error |-> JsUndefined]

\* A _sendMessage invocation that is not running: pc is "idle", "tier"
\* (awaiting the fetch of getTier) or "chat" (awaiting apiService.chat);
\* used is its local usedToday and tier the tier getTier returned.
IdleSend == [pc |-> "idle", used |-> 0, tier |-> "free"]

InitAt(rev) ==
  /\ revision = rev
  /\ OBR = "null"
  /\ cachedVaultData = NoSnapshot
  /\ isListening = FALSE
  /\ handlers = [full |-> 0, visible |-> 0]
  /\ playerId = "null"
  /\ playerName = "GM AI"
  /\ pendingRequest = NoCall
  /\ initPc = "idle"
  /\ initCall = NoCall
  /\ initCount = 0
  /\ calls = [c \in Calls |-> UnusedCall]
  /\ lateReply = "none"
  /\ invalidating = {}
  /\ poll = NoPoll
  /\ usedToday = 0
  /\ tierCached = NoTier
  /\ sends = [s \in Sends |-> IdleSend]
  /\ refreshing = FALSE
  /\ limitNotice = FALSE
  /\ inputDisabled = FALSE
  /\ loadingEl = "null"
  /\ loadingMsgs = 0
  /\ useVault = FALSE
  /\ chatPc = "idle"
  /\ chatRequest = NoRequest
  /\ chatCount = 0
  /\ apiCall = NoApiCall
  /\ apiResult = NoApiResult
  /\ proxy = NoInvocation
  /\ messages = << >>

\* init() is not running.
InitIdle ==
  \/ initPc \in {"idle", "done"}
  \/ initPc = "awaitRequest" /\ calls[initCall].pc = "done"

\* setupBroadcastListeners without the test of this._isListening.
setupBroadcastListeners_noFlag ==
  IF OBR = "null"
  THEN [handlers |-> handlers, isListening |-> isListening]
  ELSE [handlers |-> [full |-> handlers.full + 1,
                      visible |-> handlers.visible + 1],
        isListening |-> TRUE]

\* _setupBroadcastListeners(): the values of handlers and _isListening after
\* the call (both revisions have the same body).
setupBroadcastListeners ==
  IF OBR = "null" \/ isListening
  THEN [handlers |-> handlers, isListening |-> isListening]
  ELSE [handlers |-> [full |-> handlers.full + 1,
                      visible |-> handlers.visible + 1],
        isListening |-> TRUE]

\* init(obr) with no OBR handle: warns and returns (both revisions).
initWithoutOBR ==
  /\ InitIdle
  /\ UNCHANGED << pollVars, tierVars, chatVars, serviceVars, revision, OBR, cachedVaultData, isListening, handlers,
                  playerId, playerName, pendingRequest, initPc, initCall, initCount, calls, lateReply, invalidating >>

--------------------------------------------------------------------------
\* Revision "wait"

\* Bc_requestVaultFromGM without the setTimeout.
Bc_requestVaultFromGM_noTimer(c, sendOk) ==
  IF OBR = "null"
  THEN /\ calls' = [calls EXCEPT ![c] = [@ EXCEPT !.pc = "done",
                                                  !.result = "false"]]
       /\ pendingRequest' = pendingRequest
  ELSE IF sendOk
  THEN /\ calls' = [calls EXCEPT ![c] = [@ EXCEPT !.pc = "waiting",
                                                  !.events = << "send" >>]]
       /\ pendingRequest' = c
  ELSE /\ calls' = [calls EXCEPT ![c] = [@ EXCEPT !.pc = "done",
                                                  !.result = "false",
                                                  !.timer = FALSE,
                                                  !.events = << "sendFail" >>]]
       /\ pendingRequest' = NoCall

\* One requestVaultFromGM() invocation c: the promise executor runs at once.
\* Without OBR the call returns false; otherwise it arms the 5 s timer,
\* stores the pending wait and sends the request; a failing send clears the
\* timer and the pending wait and resolves false.
Bc_requestVaultFromGM(c, sendOk) ==
  IF OBR = "null"
  THEN /\ calls' = [calls EXCEPT ![c] = [@ EXCEPT !.pc = "done",
                                                  !.result = "false"]]
       /\ pendingRequest' = pendingRequest
  ELSE IF sendOk
  THEN /\ calls' = [calls EXCEPT ![c] = [@ EXCEPT !.pc = "waiting",
                                                  !.timer = TRUE,
                                                  !.events = << "send" >>]]
       /\ pendingRequest' = c
  ELSE /\ calls' = [calls EXCEPT ![c] = [@ EXCEPT !.pc = "done",
                                                  !.result = "false",
                                                  !.timer = FALSE,
                                                  !.events = << "sendFail" >>]]
       /\ pendingRequest' = NoCall

\* init(obr), up to the first await (player.getRole()).
Bc_init ==
  /\ revision = "wait"
  /\ InitIdle
  /\ initCount < MaxInits
  /\ OBR' = "obr"
  /\ initPc' = "getRole"
  /\ initCount' = initCount + 1
  /\ UNCHANGED << pollVars, tierVars, chatVars, serviceVars, revision, cachedVaultData, isListening, handlers, playerId,
                  playerName, pendingRequest,
                  initCall, calls, lateReply, invalidating >>

\* player.getRole() settles; a rejection ends init in its catch.
Bc_init_getRole ==
  /\ revision = "wait"
  /\ initPc = "getRole"
  /\ \E ok \in BOOLEAN : initPc' = IF ok THEN "getId" ELSE "done"
  /\ UNCHANGED << pollVars, tierVars, chatVars, serviceVars, revision, OBR, cachedVaultData, isListening, handlers,
                  playerId, playerName, pendingRequest, initCall, initCount, calls, lateReply, invalidating >>

\* player.getId() settles.
Bc_init_getId ==
  /\ revision = "wait"
  /\ initPc = "getId"
  /\ \E ok \in BOOLEAN :
       IF ok THEN playerId' = "me" /\ initPc' = "getName"
             ELSE playerId' = playerId /\ initPc' = "done"
  /\ UNCHANGED << pollVars, tierVars, chatVars, serviceVars, revision, OBR, cachedVaultData, isListening, handlers,
                  playerName, pendingRequest,
                  initCall, initCount, calls, lateReply, invalidating >>

\* player.getName() settles; init then registers the listeners and
\* _tryGetInitialVaultData starts its room.getMetadata().
Bc_init_getName ==
  /\ revision = "wait"
  /\ initPc = "getName"
  /\ \E ok \in BOOLEAN :
       IF ok
       THEN /\ playerName' = "Alice"
            /\ handlers' = setupBroadcastListeners.handlers
            /\ isListening' = setupBroadcastListeners.isListening
            /\ initPc' = "getMetadata"
       ELSE /\ initPc' = "done"
            /\ UNCHANGED << playerName, handlers, isListening >>
  /\ UNCHANGED << pollVars, tierVars, chatVars, serviceVars, revision, OBR, cachedVaultData, playerId, pendingRequest, initCall, initCount, calls, lateReply, invalidating >>

\* _tryGetInitialVaultData after getMetadata() settled with metadata: parse
\* the key 'com.dmscreen/config' if it is there, then requestVaultFromGM(); a
\* rejected getMetadata() is caught and ends init.
Bc_tryGetInitialVaultData(metadata) ==
  /\ revision = "wait"
  /\ initPc = "getMetadata"
  /\ IF metadata.state = "throw"
     THEN /\ initPc' = "done"
          /\ UNCHANGED << cachedVaultData, calls, pendingRequest,
                          initCall >>
     ELSE /\ IF metadata.config.truthy
             THEN /\ cachedVaultData' =
                       Bc_processVaultConfig(metadata.config, cachedVaultData)
             ELSE UNCHANGED << cachedVaultData >>
          /\ \E c \in Calls, sendOk \in BOOLEAN :
               /\ FreeCall(c)
               /\ Bc_requestVaultFromGM(c, sendOk)
               /\ initCall' = c
          /\ initPc' = "awaitRequest"
  /\ UNCHANGED << pollVars, tierVars, chatVars, serviceVars, revision, OBR, isListening, handlers, playerId, playerName, initCount, lateReply, invalidating >>

\* The application calls requestVaultFromGM().
Bc_callRequestVaultFromGM ==
  /\ revision = "wait"
  /\ \E c \in Calls, sendOk \in BOOLEAN :
       FreeCall(c) /\ Bc_requestVaultFromGM(c, sendOk)
  /\ UNCHANGED << pollVars, tierVars, chatVars, serviceVars, revision, OBR, cachedVaultData, isListening, handlers,
                  playerId, playerName, initPc,
                  initCall, initCount, lateReply, invalidating >>

\* invalidateCache(): clear the cache, then requestVaultFromGM() if OBR is set.
Bc_invalidateCache ==
  /\ revision = "wait"
  /\ cachedVaultData' = NoSnapshot
  /\ IF OBR = "null"
     THEN UNCHANGED << calls, pendingRequest, invalidating >>
     ELSE \E c \in Calls, sendOk \in BOOLEAN :
            /\ FreeCall(c)
            /\ Bc_requestVaultFromGM(c, sendOk)
            /\ invalidating' = IF calls'[c].pc = "done" THEN invalidating
                                ELSE invalidating \cup {c}
  /\ UNCHANGED << pollVars, tierVars, chatVars, serviceVars, revision, OBR, isListening, handlers, playerId, playerName, initPc, initCall, initCount,
                  lateReply >>

\* Bc_resolvePending without the requester test of the full-vault listener.
Bc_resolvePending_anyRequester(channel, requesterId) ==
  LET resolves == pendingRequest # NoCall
  IN /\ calls' = [c \in Calls |->
                   IF resolves /\ c = pendingRequest
                   THEN [calls[c] EXCEPT !.pc = "done",
                                         !.result = "true",
                                         !.timer = FALSE,
                                         !.events = Append(@, IF channel = "full"
                                                              THEN "replyFull"
                                                              ELSE "replyVisible")]
                   ELSE calls[c]]
     /\ pendingRequest' = IF resolves THEN NoCall ELSE pendingRequest
     /\ lateReply' = IF /\ pendingRequest = NoCall
                         /\ \E c \in Calls : /\ calls[c].pc = "done"
                                              /\ calls[c].events # <<>>
                      THEN channel ELSE lateReply
     /\ invalidating' = { c \in invalidating : calls'[c].pc # "done" }

\* Bc_resolvePending without "this._pendingRequest = null".
Bc_resolvePending_keepSlot(channel, requesterId) ==
  LET resolves ==
        /\ pendingRequest # NoCall
        /\ (channel = "visible" \/ requesterId = "" \/ requesterId = playerId)
  IN /\ calls' = [c \in Calls |->
                   IF resolves /\ c = pendingRequest
                   THEN [calls[c] EXCEPT !.pc = "done",
                                         !.result = "true",
                                         !.timer = FALSE,
                                         !.events = Append(@, IF channel = "full"
                                                              THEN "replyFull"
                                                              ELSE "replyVisible")]
                   ELSE calls[c]]
     /\ pendingRequest' = pendingRequest
     /\ lateReply' = IF /\ pendingRequest = NoCall
                         /\ \E c \in Calls : /\ calls[c].pc = "done"
                                              /\ calls[c].events # <<>>
                      THEN channel ELSE lateReply
     /\ invalidating' = { c \in invalidating : calls'[c].pc # "done" }

\* The end of both listeners: resolve the pending wait, if there is one (and,
\* on the full-vault channel, if the reply names no other requester), and
\* clear the slot.
Bc_resolvePending(channel, requesterId) ==
  LET resolves ==
        /\ pendingRequest # NoCall
        /\ (channel = "visible" \/ requesterId = "" \/ requesterId = playerId)
  IN /\ calls' = [c \in Calls |->
                   IF resolves /\ c = pendingRequest
                   THEN [calls[c] EXCEPT !.pc = "done",
                                         !.result = "true",
                                         !.timer = FALSE,
                                         !.events = Append(@, IF channel = "full"
                                                              THEN "replyFull"
                                                              ELSE "replyVisible")]
                   ELSE calls[c]]
     /\ pendingRequest' = IF resolves THEN NoCall ELSE pendingRequest
     /\ lateReply' = IF /\ pendingRequest = NoCall
                         /\ \E c \in Calls : /\ calls[c].pc = "done"
                                              /\ calls[c].events # <<>>
                      THEN channel ELSE lateReply
     /\ invalidating' = { c \in invalidating : calls'[c].pc # "done" }

\* A message { config, requesterId } arrives on
\* 'com.dmscreen/responseFullVault'.
Bc_onResponseFullVault(config, requesterId) ==
  /\ revision = "wait"
  /\ handlers.full > 0
  /\ IF config.truthy
     THEN /\ cachedVaultData' = Bc_processVaultConfig(config, cachedVaultData)
          /\ Bc_resolvePending("full", requesterId)
     ELSE UNCHANGED << cachedVaultData, calls, pendingRequest,
                       lateReply, invalidating >>
  /\ UNCHANGED << pollVars, tierVars, chatVars, serviceVars, revision, OBR, isListening, handlers, playerId, playerName, initPc, initCall, initCount >>

\* A message { config } arrives on 'com.dmscreen/visiblePages'.
Bc_onVisiblePages(config) ==
  /\ revision = "wait"
  /\ handlers.visible > 0
  /\ IF config.truthy
     THEN /\ cachedVaultData' = Bc_processVaultConfig(config, cachedVaultData)
          /\ Bc_resolvePending("visible", "")
     ELSE UNCHANGED << cachedVaultData, calls, pendingRequest,
                       lateReply, invalidating >>
  /\ UNCHANGED << pollVars, tierVars, chatVars, serviceVars, revision, OBR, isListening, handlers, playerId, playerName, initPc, initCall, initCount >>

\* Bc_timeout without "this._pendingRequest = null".
Bc_timeout_keepSlot(c) ==
  /\ revision = "wait"
  /\ calls[c].timer
  /\ pendingRequest' = pendingRequest
  /\ calls' = [calls EXCEPT ![c] = [@ EXCEPT !.pc = "done",
                                             !.result = "false",
                                             !.timer = FALSE,
                                             !.events = Append(@, "timeout")]]
  /\ invalidating' = invalidating \ {c}
  /\ UNCHANGED << pollVars, tierVars, chatVars, serviceVars, revision, OBR, cachedVaultData, isListening, handlers,
                  playerId, playerName, initPc,
                  initCall, initCount, lateReply >>

\* The 5 s timer of call c expires: clear the pending wait, resolve false.
Bc_timeout(c) ==
  /\ revision = "wait"
  /\ calls[c].timer
  /\ pendingRequest' = NoCall
  /\ calls' = [calls EXCEPT ![c] = [@ EXCEPT !.pc = "done",
                                             !.result = "false",
                                             !.timer = FALSE,
                                             !.events = Append(@, "timeout")]]
  /\ invalidating' = invalidating \ {c}
  /\ UNCHANGED << pollVars, tierVars, chatVars, serviceVars, revision, OBR, cachedVaultData, isListening, handlers,
                  playerId, playerName, initPc,
                  initCall, initCount, lateReply >>

NextWait ==
  \/ initWithoutOBR
  \/ Bc_init
  \/ Bc_init_getRole
  \/ Bc_init_getId
  \/ Bc_init_getName
  \/ \E metadata \in ReadOutcomes("wait") : Bc_tryGetInitialVaultData(metadata)
  \/ Bc_callRequestVaultFromGM
  \/ Bc_invalidateCache
  \/ \E config \in Payloads, requesterId \in RequesterIds :
       Bc_onResponseFullVault(config, requesterId)
  \/ \E config \in Payloads : Bc_onVisiblePages(config)
  \/ \E c \in Calls : Bc_timeout(c)

SpecWait == InitAt("wait") /\ [][NextWait]_vars

\* The timers of the host fire: an armed timeout is not postponed for ever.
FairSpecWait == SpecWait /\ \A c \in Calls : WF_vars(Bc_timeout(c))

--------------------------------------------------------------------------
\* Revision "meta"

\* _loadFromRoomMetadata() once getMetadata() has settled with metadata:
\* whether data was found, and the config handed to _processVaultConfig.
Rm_loadFromRoomMetadata(metadata) ==
  IF metadata.state = "throw"
  THEN [found |-> FALSE, parse |-> FALSE, config |-> NoConfig]
  ELSE IF metadata.fullConfig.truthy
  THEN [found |-> TRUE, parse |-> TRUE, config |-> metadata.fullConfig]
  ELSE IF metadata.pagesConfig.truthy
  THEN [found |-> TRUE, parse |-> TRUE, config |-> metadata.pagesConfig]
  ELSE [found |-> FALSE, parse |-> FALSE, config |-> NoConfig]

\* The cache after _loadFromRoomMetadata() resumed with the outcome loaded.
Rm_applyLoad(loaded) ==
  IF loaded.parse
  THEN /\ cachedVaultData' = Rm_processVaultConfig(loaded.config, cachedVaultData)
  ELSE UNCHANGED << cachedVaultData >>

\* Rm_requestVaultFromGM without "if (!this.OBR) return false".
Rm_requestVaultFromGM_noGuard(c) ==
  calls' = [calls EXCEPT ![c] = [@ EXCEPT !.pc = "reading"]]

\* requestVaultFromGM() invocation c, up to its await of getMetadata().
Rm_requestVaultFromGM(c) ==
  IF OBR = "null"
  THEN calls' = [calls EXCEPT ![c] = [@ EXCEPT !.pc = "done",
                                               !.result = "false"]]
  ELSE calls' = [calls EXCEPT ![c] = [@ EXCEPT !.pc = "reading"]]

\* init(obr), up to the first await (player.getId()).
Rm_init ==
  /\ revision = "meta"
  /\ InitIdle
  /\ initCount < MaxInits
  /\ OBR' = "obr"
  /\ initPc' = "getId"
  /\ initCount' = initCount + 1
  /\ UNCHANGED << pollVars, tierVars, chatVars, serviceVars, revision, cachedVaultData, isListening, handlers, playerId,
                  playerName, pendingRequest,
                  initCall, calls, lateReply, invalidating >>

\* player.getId() settles; a rejection ends init in its catch.
Rm_init_getId ==
  /\ revision = "meta"
  /\ initPc = "getId"
  /\ \E ok \in BOOLEAN :
       IF ok THEN playerId' = "me" /\ initPc' = "getName"
             ELSE playerId' = playerId /\ initPc' = "done"
  /\ UNCHANGED << pollVars, tierVars, chatVars, serviceVars, revision, OBR, cachedVaultData, isListening, handlers,
                  playerName, pendingRequest,
                  initCall, initCount, calls, lateReply, invalidating >>

\* player.getName() settles; init then registers the listeners and
\* _loadFromRoomMetadata starts its room.getMetadata().
Rm_init_getName ==
  /\ revision = "meta"
  /\ initPc = "getName"
  /\ \E ok \in BOOLEAN :
       IF ok
       THEN /\ playerName' = "Alice"
            /\ handlers' = setupBroadcastListeners.handlers
            /\ isListening' = setupBroadcastListeners.isListening
            /\ initPc' = "getMetadata"
       ELSE /\ initPc' = "done"
            /\ UNCHANGED << playerName, handlers, isListening >>
  /\ UNCHANGED << pollVars, tierVars, chatVars, serviceVars, revision, OBR, cachedVaultData, playerId, pendingRequest, initCall, initCount, calls, lateReply, invalidating >>

\* init's _loadFromRoomMetadata() resumes, getMetadata() having settled
\* with metadata; init ends.
Rm_init_loadFromRoomMetadata(metadata) ==
  /\ revision = "meta"
  /\ initPc = "getMetadata"
  /\ Rm_applyLoad(Rm_loadFromRoomMetadata(metadata))
  /\ initPc' = "done"
  /\ UNCHANGED << pollVars, tierVars, chatVars, serviceVars, revision, OBR, isListening, handlers, playerId, playerName,
                  pendingRequest, initCall, initCount, calls,
                  lateReply, invalidating >>

\* The application calls requestVaultFromGM().
Rm_callRequestVaultFromGM ==
  /\ revision = "meta"
  /\ \E c \in Calls : FreeCall(c) /\ Rm_requestVaultFromGM(c)
  /\ UNCHANGED << pollVars, tierVars, chatVars, serviceVars, revision, OBR, cachedVaultData, isListening, handlers,
                  playerId, playerName, pendingRequest, initPc, initCall, initCount, lateReply, invalidating >>

\* requestVaultFromGM() invocation c resumes, getMetadata() having settled
\* with metadata: _loadFromRoomMetadata finishes, the broadcast request is
\* sent (a failing send is swallowed) and the call returns found.
Rm_requestVaultFromGM_resume(c, metadata) ==
  /\ revision = "meta"
  /\ calls[c].pc = "reading"
  /\ LET loaded == Rm_loadFromRoomMetadata(metadata)
     IN /\ Rm_applyLoad(loaded)
        /\ \E sendOk \in BOOLEAN :
             calls' = [calls EXCEPT ![c] =
                         [@ EXCEPT !.pc = "done",
                                   !.found = IF loaded.found THEN "true" ELSE "false",
                                   !.result = IF loaded.found THEN "true" ELSE "false",
                                   !.events = << "read", IF sendOk THEN "send"
                                                         ELSE "sendFail" >>]]
  /\ invalidating' = invalidating \ {c}
  /\ UNCHANGED << pollVars, tierVars, chatVars, serviceVars, revision, OBR, isListening, handlers, playerId, playerName,
                  pendingRequest, initPc, initCall,
                  initCount, lateReply >>

\* invalidateCache(): clear the cache, then requestVaultFromGM() if OBR is set.
Rm_invalidateCache ==
  /\ revision = "meta"
  /\ cachedVaultData' = NoSnapshot
  /\ IF OBR = "null"
     THEN UNCHANGED << calls, invalidating >>
     ELSE \E c \in Calls :
            /\ FreeCall(c)
            /\ Rm_requestVaultFromGM(c)
            /\ invalidating' = invalidating \cup {c}
  /\ UNCHANGED << pollVars, tierVars, chatVars, serviceVars, revision, OBR, isListening, handlers, playerId, playerName,
                  pendingRequest, initPc, initCall,
                  initCount, lateReply >>

\* The body of both listeners: parse the config of the message, if any.
Rm_onMessage(config) ==
  /\ IF config.truthy
     THEN /\ cachedVaultData' = Rm_processVaultConfig(config, cachedVaultData)
     ELSE UNCHANGED << cachedVaultData >>
  /\ UNCHANGED << pollVars, tierVars, chatVars, serviceVars, revision, OBR, isListening, handlers, playerId, playerName,
                  pendingRequest, initPc, initCall,
                  initCount, calls, lateReply, invalidating >>

\* A message { config } arrives on 'com.dmscreen/responseFullVault'.
Rm_onResponseFullVault(config) ==
  /\ revision = "meta"
  /\ handlers.full > 0
  /\ Rm_onMessage(config)

\* A message { config } arrives on 'com.dmscreen/visiblePages'.
Rm_onVisiblePages(config) ==
  /\ revision = "meta"
  /\ handlers.visible > 0
  /\ Rm_onMessage(config)

NextMeta ==
  \/ initWithoutOBR
  \/ Rm_init
  \/ Rm_init_getId
  \/ Rm_init_getName
  \/ \E metadata \in ReadOutcomes("meta") :
       Rm_init_loadFromRoomMetadata(metadata)
  \/ Rm_callRequestVaultFromGM
  \/ \E c \in Calls, metadata \in ReadOutcomes("meta") :
       Rm_requestVaultFromGM_resume(c, metadata)
  \/ Rm_invalidateCache
  \/ \E config \in Payloads : Rm_onResponseFullVault(config)
  \/ \E config \in Payloads : Rm_onVisiblePages(config)

SpecMeta == InitAt("meta") /\ [][NextMeta]_vars

--------------------------------------------------------------------------
\* Either revision

Init == InitAt("wait") \/ InitAt("meta")

Next == NextWait \/ NextMeta

Spec == Init /\ [][Next]_vars

--------------------------------------------------------------------------
\* Properties of the snapshot

\* This step hands config to _processVaultConfig, whichever channel or read
\* delivered it.
ProcessesConfig(config) ==
  \/ config.truthy /\ \E requesterId \in RequesterIds :
                         Bc_onResponseFullVault(config, requesterId)
  \/ config.truthy /\ Bc_onVisiblePages(config)
  \/ config.truthy /\ Rm_onResponseFullVault(config)
  \/ config.truthy /\ Rm_onVisiblePages(config)
  \/ \E metadata \in RoomMetadataValues("wait") :
       /\ metadata.config.truthy /\ metadata.config = config
       /\ Bc_tryGetInitialVaultData(metadata)
  \/ \E metadata \in RoomMetadataValues("meta") :
       /\ Rm_loadFromRoomMetadata(metadata).parse
       /\ Rm_loadFromRoomMetadata(metadata).config = config
       /\ \/ Rm_init_loadFromRoomMetadata(metadata)
          \/ \E c \in Calls : Rm_requestVaultFromGM_resume(c, metadata)

\* C1: once the snapshot is present it stays present across every failed
\* fetch, timeout, missing key, error and invalid config; the only step that
\* takes a present snapshot away is invalidateCache.
C1_OnlyInvalidateClears ==
  [][(cachedVaultData.present /\ ~cachedVaultData'.present)
       => (Bc_invalidateCache \/ Rm_invalidateCache)]_vars

\* C2: processing a config that is missing or has no category list is a
\* no-op: the snapshot after the step is the snapshot before it, whichever
\* channel delivered the config.
C2_InvalidConfigIsNoOp ==
  [][\A config \in Payloads :
       (~IsValidConfig(config) /\ ProcessesConfig(config))
         => cachedVaultData' = cachedVaultData]_vars

--------------------------------------------------------------------------
\* Properties of the bounded wait (revision "wait")

ResolutionEvents == {"replyFull", "replyVisible", "timeout", "sendFail"}
ReplyEvents == {"replyFull", "replyVisible"}

\* How many times the promise of call c has been resolved.
Resolutions(c) ==
  Cardinality({ i \in DOMAIN calls[c].events :
                  calls[c].events[i] \in ResolutionEvents })

LastEvent(c) == calls[c].events[Len(calls[c].events)]

RepliedTo(c) == calls[c].events # <<>> /\ LastEvent(c) \in ReplyEvents
TimedOut(c) == calls[c].events # <<>> /\ LastEvent(c) = "timeout"

\* A broadcast listener runs on a message that carries a config.
ListenerStep ==
  \E config \in Payloads :
    /\ config.truthy
    /\ \/ \E requesterId \in RequesterIds :
            Bc_onResponseFullVault(config, requesterId)
       \/ Bc_onVisiblePages(config)

\* C3: a pending wait is resolved exactly once.  A call that was sent is
\* resolved at most once, not at all while it waits and once when it is
\* done; a reply resolves only the call that owns the pending-wait slot and
\* empties the slot in the same step; a call that is done keeps its outcome,
\* so a second reply on the other channel, or a timeout after a reply,
\* resolves nothing.
C3_ResolvedExactlyOnce ==
  /\ [](\A c \in Calls :
          /\ Resolutions(c) <= 1
          /\ calls[c].pc = "waiting" => Resolutions(c) = 0
          /\ (calls[c].pc = "done" /\ calls[c].events # <<>>)
               => Resolutions(c) = 1)
  /\ [][\A c \in Calls :
          /\ (~RepliedTo(c) /\ RepliedTo(c)')
               => (pendingRequest = c /\ pendingRequest' = NoCall)
          /\ calls[c].pc = "done"
               => /\ calls'[c].pc = "done"
                  /\ calls'[c].result = calls[c].result
                  /\ calls'[c].events = calls[c].events]_vars

\* A call was resolved by a reply on the full-vault channel, and a message
\* on the visible-pages channel was delivered after that.
C3_Witness ==
  \E c \in Calls :
    /\ calls[c].events = << "send", "replyFull" >>
    /\ calls[c].result = "true"
    /\ \A d \in Calls \ {c} : calls[d].pc = "unused"
    /\ lateReply = "visible"

C5_EveryCallCompletes ==
  /\ \A c \in Calls : (calls[c].pc = "waiting") ~> (calls[c].pc = "done")
  /\ [](\A c \in Calls :
          /\ calls[c].pc = "waiting" => calls[c].timer
          /\ TimedOut(c) => (calls[c].pc = "done" /\ calls[c].result = "false")
          /\ calls[c].events = << "sendFail" >>
               => /\ calls[c].pc = "done"
                  /\ calls[c].result = "false"
                  /\ ~calls[c].timer)
  /\ [][\A c \in Calls :
          (calls[c].events # << "sendFail" >> /\ calls'[c].events = << "sendFail" >>)
            => pendingRequest' = NoCall]_vars

\* One call ended by its timer with no reply at all, another by a failed send.
C5_Witness ==
  \E c, d \in Calls :
    /\ calls[c].events = << "send", "timeout" >>
    /\ calls[c].result = "false"
    /\ lateReply = "none"
    /\ calls[d].events = << "sendFail" >>
    /\ calls[d].result = "false"

--------------------------------------------------------------------------
\* Properties of requestVaultFromGM and of the flattening

\* C6: requestVaultFromGM reads the persistent shared state first and only
\* then sends the broadcast request; whether the send fails or no reply
\* comes, the call ends with the snapshot the read produced and with the
\* result "the read found data".
C6_ReadFirstThenBroadcast ==
  [][\A c \in Calls :
       (calls[c].pc # "done" /\ calls'[c].pc = "done" /\ OBR # "null")
         => /\ calls'[c].events \in { << "read", "send" >>,
                                      << "read", "sendFail" >> }
            /\ calls'[c].result = calls'[c].found
            /\ \E metadata \in ReadOutcomes(revision) :
                 LET loaded == Rm_loadFromRoomMetadata(metadata)
                 IN /\ calls'[c].found = (IF loaded.found THEN "true"
                                                          ELSE "false")
                    /\ cachedVaultData' =
                         (IF loaded.parse
                          THEN Rm_processVaultConfig(loaded.config,
                                                     cachedVaultData)
                          ELSE cachedVaultData)]_vars

\* What _processVaultConfig makes of config alone, starting from no snapshot.
Flattening(config) == Rm_processVaultConfig(config, NoSnapshot)

\* The configs of the model that pass the guard of _processVaultConfig.
GuardedConfigs == { config \in Payloads \cup {BadCategories} : IsValidConfig(config) }

\* C7: under every interleaving of metadata reads and broadcast pushes the
\* snapshot is absent or the flattening of one single config; a step that
\* processes a valid config leaves exactly the flattening of that config,
\* whatever the snapshot was; and nothing else but invalidateCache changes
\* the snapshot, so it is the flattening of the valid config processed last.
C7_SnapshotIsOneConfig ==
  /\ [](\/ cachedVaultData = NoSnapshot
        \/ \E config \in GuardedConfigs : cachedVaultData = Flattening(config))
  /\ [][\A config \in GuardedConfigs :
          ProcessesConfig(config) => cachedVaultData' = Flattening(config)]_vars
  /\ [][cachedVaultData' # cachedVaultData
          => \/ Rm_invalidateCache
             \/ \E config \in GuardedConfigs : ProcessesConfig(config)]_vars

\* A metadata read found a config (no key that is read ever holds CfgNested,
\* so it parsed another one), a broadcast pushed CfgNested after it, and the
\* snapshot is that of CfgNested.
C7_Witness ==
  /\ cachedVaultData = Flattening(CfgNested)
  /\ \E c \in Calls : /\ calls[c].pc = "done"
                      /\ calls[c].found = "true"

\* The ids of the pages of categories, sub-categories included, whose
\* visible flag is not false, in depth-first order.
RECURSIVE VisiblePageIds(_)
VisiblePageIds(categories) ==
  IF categories = <<>> THEN <<>>
  ELSE LET category == Head(categories)
           keep == SelectSeq(category.pages, LAMBDA page : page.visible # "false")
       IN [i \in 1..Len(keep) |-> keep[i].id]
            \o VisiblePageIds(category.categories)
            \o VisiblePageIds(Tail(categories))

SeqToSet(seq) == { seq[i] : i \in 1..Len(seq) }

\* C8: the snapshot made from a valid config holds exactly the pages, at any
\* depth, whose visible flag is not false: one entry for each of them, none
\* for a hidden page, none lost from a sub-category.
C8_ExactlyVisiblePages ==
  [][\A config \in ValidConfigs :
       ProcessesConfig(config)
         => LET expected == VisiblePageIds(config.categories)
                pages == cachedVaultData'.pages
            IN /\ cachedVaultData'.present
               /\ Len(pages) = Len(expected)
               /\ { pages[i].id : i \in 1..Len(pages) } = SeqToSet(expected)]_vars

PathName(category, parentPath) ==
  LET name == IF category.name = "" THEN "Uncategorized" ELSE category.name
  IN IF parentPath = "" THEN name ELSE parentPath \o " > " \o name

\* The paths of categories and of their sub-categories, depth first.
RECURSIVE CategoryPaths(_, _)
CategoryPaths(categories, parentPath) ==
  IF categories = <<>> THEN <<>>
  ELSE LET path == PathName(Head(categories), parentPath)
       IN << path >> \o CategoryPaths(Head(categories).categories, path)
                     \o CategoryPaths(Tail(categories), parentPath)

\* The pairs << page id, path of the owning category >> of categories.
RECURSIVE PagePaths(_, _)
PagePaths(categories, parentPath) ==
  IF categories = <<>> THEN {}
  ELSE LET category == Head(categories)
           path == PathName(category, parentPath)
       IN { << category.pages[i].id, path >> : i \in 1..Len(category.pages) }
            \cup PagePaths(category.categories, path)
            \cup PagePaths(Tail(categories), parentPath)

\* The category list of the snapshot as path strings.  Revision "wait" keeps
\* the category objects of the config in the list; each is read by the name
\* its pages get (category.name || 'Uncategorized').
SnapshotCategoryList(snapshot) ==
  IF revision = "wait"
  THEN [i \in 1..Len(snapshot.categories) |->
          IF snapshot.categories[i].name # ""
          THEN snapshot.categories[i].name
          ELSE "Uncategorized"]
  ELSE snapshot.categories

\* C9: every page of the snapshot carries the path of its owning category
\* (ancestor names joined by " > ", "Uncategorized" for a missing name), and
\* the category list of the snapshot is the list of the paths of all visited
\* categories in depth-first order.
C9_QualifiedPaths ==
  [][\A config \in ValidConfigs :
       ProcessesConfig(config)
         => LET pages == cachedVaultData'.pages
                list == SnapshotCategoryList(cachedVaultData')
                paths == CategoryPaths(config.categories, "")
            IN /\ cachedVaultData'.present
               /\ \A i \in 1..Len(pages) :
                    << pages[i].id, pages[i].category >>
                      \in PagePaths(config.categories, "")
               /\ Len(list) = Len(paths)
               /\ \A i \in 1..Len(list) : list[i] = paths[i]]_vars

\* The outcome the three-key order gives for a metadata read: whether a key
\* was present, and the first present key.
ThreeKeyLoad(metadata) ==
  IF metadata.state # "value" THEN [found |-> FALSE, config |-> NoConfig]
  ELSE IF metadata.summary.truthy
  THEN [found |-> TRUE, config |-> metadata.summary]
  ELSE IF metadata.fullConfig.truthy
  THEN [found |-> TRUE, config |-> metadata.fullConfig]
  ELSE IF metadata.pagesConfig.truthy
  THEN [found |-> TRUE, config |-> metadata.pagesConfig]
  ELSE [found |-> FALSE, config |-> NoConfig]

\* C10: the load from shared state looks at the summary key, then the full
\* configuration, then the visible-pages configuration, parses only the
\* first one present and returns true exactly when one of them was present.
C10_ThreeKeyPriority ==
  [][\A metadata \in ReadOutcomes("meta") :
       LET load == ThreeKeyLoad(metadata)
           snapshot == IF load.found /\ IsValidConfig(load.config)
                       THEN Flattening(load.config)
                       ELSE cachedVaultData
       IN /\ \A c \in Calls :
               Rm_requestVaultFromGM_resume(c, metadata)
                 => /\ calls'[c].found = (IF load.found THEN "true"
                                                        ELSE "false")
                    /\ cachedVaultData' = snapshot
          /\ Rm_init_loadFromRoomMetadata(metadata)
               => cachedVaultData' = snapshot]_vars

--------------------------------------------------------------------------
\* Properties of the load from shared state and of the queries

\* The value under a key is there but is no usable config.
Malformed(config) ==
  config.truthy /\ (~config.hasCategories \/ ~config.isArray)

\* The read failed, or each well-known key is absent or malformed.
NothingUsable(metadata) ==
  \/ metadata.state = "throw"
  \/ \A config \in {metadata.summary, metadata.fullConfig, metadata.pagesConfig} :
       ~config.truthy \/ Malformed(config)

\* C11: when the read of the shared state fails, or every well-known key is
\* absent or malformed, the load returns false and leaves the snapshot as it
\* was (in requestVaultFromGM and in init alike).
C11_NothingUsableIsNotFound ==
  [][\A metadata \in ReadOutcomes("meta") :
       NothingUsable(metadata)
         => /\ \A c \in Calls :
                 Rm_requestVaultFromGM_resume(c, metadata)
                   => /\ calls'[c].found = "false"
                      /\ cachedVaultData' = cachedVaultData
            /\ Rm_init_loadFromRoomMetadata(metadata)
                 => cachedVaultData' = cachedVaultData]_vars

--------------------------------------------------------------------------
\* The queries (the same code in both revisions)

\* isVaultAvailable()
isVaultAvailable ==
  cachedVaultData.present /\ Len(cachedVaultData.pages) > 0

\* getVaultData()
getVaultData == cachedVaultData

\* The category names of the model in the order of JavaScript's default
\* sort (by UTF-16 code unit), and the comparison it gives.
SortedCategoryNames ==
  << "Alpha", "Region", "Region > City", "Uncategorized", "Zeta" >>

SortRank(name) ==
  CHOOSE i \in 1..Len(SortedCategoryNames) : SortedCategoryNames[i] = name

SortsBefore(a, b) == SortRank(a) < SortRank(b)

\* vaultData.pages.forEach(page => pagesByCategory[page.category].push(page)):
\* the groups in the order their keys were created.
RECURSIVE pagesByCategory(_, _)
pagesByCategory(pages, groups) ==
  IF pages = <<>> THEN groups
  ELSE LET page == Head(pages)
           known == { i \in 1..Len(groups) : groups[i].category = page.category }
       IN IF known = {}
          THEN pagesByCategory(Tail(pages),
                 Append(groups, [category |-> page.category, pages |-> << page >>]))
          ELSE pagesByCategory(Tail(pages),
                 [i \in 1..Len(groups) |->
                    IF i \in known
                    THEN [groups[i] EXCEPT !.pages = Append(@, page)]
                    ELSE groups[i]])

\* group put at its place in the sorted sequence groups.
RECURSIVE insertGroup(_, _)
insertGroup(group, groups) ==
  IF groups = <<>> THEN << group >>
  ELSE IF SortsBefore(group.category, Head(groups).category)
  THEN << group >> \o groups
  ELSE << Head(groups) >> \o insertGroup(group, Tail(groups))

\* sortedKeys without the .sort(): the keys in creation order.
sortedKeys_unsorted(groups) == groups

\* Object.keys(pagesByCategory).sort(): the groups by ascending key.
RECURSIVE sortedKeys(_)
sortedKeys(groups) ==
  IF groups = <<>> THEN <<>>
  ELSE insertGroup(Head(groups), sortedKeys(Tail(groups)))

\* The groups of getVaultSummary in the order it lists them.
summaryGroups(vaultData) == sortedKeys(pagesByCategory(vaultData.pages, <<>>))

\* The icon shown for a page without one (the "page facing up" emoji).
DefaultIcon == "[page]"

RECURSIVE pageLines(_)
pageLines(pages) ==
  IF pages = <<>> THEN ""
  ELSE "- " \o (IF Head(pages).icon # "" THEN Head(pages).icon ELSE DefaultIcon)
            \o " " \o Head(pages).title \o "\n" \o pageLines(Tail(pages))

RECURSIVE groupLines(_)
groupLines(groups) ==
  IF groups = <<>> THEN ""
  ELSE "\n**" \o Head(groups).category \o ":**\n"
         \o pageLines(Head(groups).pages) \o groupLines(Tail(groups))

\* getVaultSummary with the guard "if (!vaultData)" only.
getVaultSummary_nullOnly(vaultData) ==
  IF ~vaultData.present
  THEN ""
  ELSE "\n\n## GM Vault Content\n\n"
         \o "The user has a GM Vault with " \o ToString(Len(vaultData.pages))
         \o " pages organized in " \o ToString(Len(vaultData.categories))
         \o " categories.\n\n"
         \o "Available pages:\n"
         \o groupLines(summaryGroups(vaultData))
         \o "\nNote: The user can reference these pages when asking questions. You can mention them if relevant to the conversation.\n"

\* getVaultSummary() on the snapshot vaultData
getVaultSummary(vaultData) ==
  IF ~vaultData.present \/ Len(vaultData.pages) = 0
  THEN ""
  ELSE "\n\n## GM Vault Content\n\n"
         \o "The user has a GM Vault with " \o ToString(Len(vaultData.pages))
         \o " pages organized in " \o ToString(Len(vaultData.categories))
         \o " categories.\n\n"
         \o "Available pages:\n"
         \o groupLines(summaryGroups(vaultData))
         \o "\nNote: The user can reference these pages when asking questions. You can mention them if relevant to the conversation.\n"

\* C12: in every reachable state of either revision isVaultAvailable is
\* true exactly when a snapshot exists and its page list is non-empty, and
\* getVaultSummary returns the empty string exactly when isVaultAvailable
\* is false.
C12_AvailableIffSummary ==
  /\ isVaultAvailable
       <=> (cachedVaultData # NoSnapshot /\ \E i \in 1..3 : i \in DOMAIN cachedVaultData.pages)
  /\ (getVaultSummary(getVaultData) = "") <=> ~isVaultAvailable

\* A snapshot exists but lists no page: not available, empty summary.
C12_Witness ==
  /\ cachedVaultData.present
  /\ cachedVaultData.pages = <<>>
  /\ ~isVaultAvailable
  /\ getVaultSummary(getVaultData) = ""

--------------------------------------------------------------------------
\* Properties of invalidateCache, of a missing OBR handle and of init

\* The read metadata holds a valid config under the key the three-key order
\* selects (revision "wait" keeps its config under the one key it reads).
HoldsValidConfig(metadata) ==
  /\ metadata.state = "value"
  /\ LET config == IF revision = "wait" THEN metadata.config
                   ELSE ThreeKeyLoad(metadata).config
     IN IsValidConfig(config) /\ config.isArray

\* C14: invalidateCache makes the snapshot absent and, in the same step,
\* starts a requestVaultFromGM call (when OBR is set); when that call
\* completes, and with it invalidateCache, while room metadata holds a valid
\* config, the snapshot is present.
C14_ClearThenRefresh ==
  [][/\ (Bc_invalidateCache \/ Rm_invalidateCache)
          => /\ cachedVaultData' = NoSnapshot
             /\ OBR # "null"
                  => \E c \in Calls : FreeCall(c) /\ calls'[c].pc # "unused"
     /\ \A c \in invalidating :
          /\ revision = "meta"
               => \A metadata \in RoomMetadataValues("meta") :
                    (HoldsValidConfig(metadata)
                       /\ Rm_requestVaultFromGM_resume(c, metadata))
                      => cachedVaultData'.present
          /\ (/\ revision = "wait"
              /\ \E metadata \in RoomMetadataValues("wait") :
                   HoldsValidConfig(metadata)
              /\ calls'[c].pc = "done")
               => cachedVaultData'.present]_vars

\* C15: as long as no OBR handle was supplied to init, in both revisions
\* every requestVaultFromGM call has returned false without a read or a
\* message, isVaultAvailable is false, getVaultData is absent,
\* getVaultSummary is empty and no listener is registered.
C15_NoHandleNoEffect ==
  OBR = "null"
    => /\ \A c \in Calls :
            \/ calls[c] = UnusedCall
            \/ calls[c] = [UnusedCall EXCEPT !.pc = "done", !.result = "false"]
       /\ invalidating = {}
       /\ pendingRequest = NoCall
       /\ ~isVaultAvailable
       /\ getVaultData = NoSnapshot
       /\ getVaultSummary(getVaultData) = ""
       /\ handlers = [full |-> 0, visible |-> 0]
       /\ ~isListening

\* No handle was supplied and requestVaultFromGM has been called twice.
C15_Witness ==
  /\ OBR = "null"
  /\ \A c \in 1..2 : calls[c].pc = "done" /\ calls[c].result = "false"
  /\ getVaultSummary(getVaultData) = ""

\* C16: in both revisions, whatever the outcome of player.getId() and of
\* player.getName(), init goes on: after getId it awaits getName, and after
\* getName the participant name is the resolved one or the value it had,
\* the listeners on both channels are registered and init is at its initial
\* load from room metadata.
C16_IdentityFailureNonFatal ==
  [][/\ (initPc = "getId" /\ initPc' # "getId") => initPc' = "getName"
     /\ (initPc = "getName" /\ initPc' # "getName")
          => /\ playerName' \in {playerName, "Alice"}
             /\ isListening'
             /\ handlers'.full > 0 /\ handlers'.visible > 0
             /\ initPc' = "getMetadata"]_vars

--------------------------------------------------------------------------
\* The recurring background refresh, on top of revision "meta"

\* The number of pages of a snapshot (none for an absent one).
pageCount(snapshot) == Len(snapshot.pages)

\* The start routine without the clearing of the handle it already holds.
startPolling_noClear ==
  /\ revision = "meta"
  /\ poll.starts < MaxStarts
  /\ poll' = [poll EXCEPT !.timers = @ + 1, !.starts = @ + 1]
  /\ UNCHANGED << tierVars, chatVars, serviceVars, revision, OBR, cachedVaultData, isListening,
                  handlers, playerId, playerName, pendingRequest, initPc,
                  initCall, initCount, calls, lateReply, invalidating >>

\* The start routine: one interval timer is active after it, whether or not
\* one was active before.
startPolling ==
  /\ revision = "meta"
  /\ poll.starts < MaxStarts
  /\ poll' = [poll EXCEPT !.timers = 1, !.starts = @ + 1]
  /\ UNCHANGED << tierVars, chatVars, serviceVars, revision, OBR, cachedVaultData, isListening,
                  handlers, playerId, playerName, pendingRequest, initPc,
                  initCall, initCount, calls, lateReply, invalidating >>

\* Teardown: clears the interval handle.
stopPolling ==
  /\ revision = "meta"
  /\ poll' = [poll EXCEPT !.timers = 0]
  /\ UNCHANGED << tierVars, chatVars, serviceVars, revision, OBR, cachedVaultData, isListening,
                  handlers, playerId, playerName, pendingRequest, initPc,
                  initCall, initCount, calls, lateReply, invalidating >>

\* The snapshot after a re-read of room metadata that gave metadata.
rereadSnapshot(metadata) ==
  LET loaded == Rm_loadFromRoomMetadata(metadata)
  IN IF OBR # "null" /\ loaded.parse
     THEN Rm_processVaultConfig(loaded.config, cachedVaultData)
     ELSE cachedVaultData

\* pollTick with a callback on every refresh.
pollTick_alwaysNotify(metadata) ==
  /\ revision = "meta"
  /\ poll.timers > 0
  /\ poll.intervals < MaxIntervals
  /\ cachedVaultData' = rereadSnapshot(metadata)
  /\ poll' = [poll EXCEPT !.intervals = @ + 1,
                          !.refreshes = @ + poll.timers,
                          !.callbacks = @ + 1]
  /\ UNCHANGED << tierVars, chatVars, serviceVars, revision, OBR, isListening,
                  handlers, playerId, playerName, pendingRequest, initPc,
                  initCall, initCount, calls, lateReply, invalidating >>

\* One interval elapses: every active timer fires a refresh, which re-reads
\* room metadata (the read gives metadata) and invokes the vault-changed
\* callback if the number of pages differs from the one before.
pollTick(metadata) ==
  /\ revision = "meta"
  /\ poll.timers > 0
  /\ poll.intervals < MaxIntervals
  /\ cachedVaultData' = rereadSnapshot(metadata)
  /\ poll' = [poll EXCEPT !.intervals = @ + 1,
                          !.refreshes = @ + poll.timers,
                          !.callbacks = IF pageCount(cachedVaultData')
                                            # pageCount(cachedVaultData)
                                        THEN @ + 1 ELSE @]
  /\ UNCHANGED << tierVars, chatVars, serviceVars, revision, OBR, isListening,
                  handlers, playerId, playerName, pendingRequest, initPc,
                  initCall, initCount, calls, lateReply, invalidating >>

NextPoll ==
  \/ Rm_init
  \/ Rm_init_getId
  \/ Rm_init_getName
  \/ \E metadata \in ReadOutcomes("meta") : Rm_init_loadFromRoomMetadata(metadata)
  \/ startPolling
  \/ stopPolling
  \/ \E metadata \in ReadOutcomes("meta") : pollTick(metadata)

SpecPoll == InitAt("meta") /\ [][NextPoll]_vars

\* C17: at most one polling timer is active; the intervals that elapsed
\* with the poll started caused as many refreshes, however often the start
\* routine ran; and while no timer is active no step adds a refresh or a
\* callback.
C17_OnePollingTimer ==
  /\ [](poll.timers <= 1 /\ poll.refreshes = poll.intervals)
  /\ [][poll.timers = 0
          => /\ poll'.refreshes = poll.refreshes
             /\ poll'.callbacks = poll.callbacks]_vars

\* The start routine ran twice and two intervals gave two refreshes.
C17_Witness ==
  /\ poll.starts = 2
  /\ poll.timers = 1
  /\ poll.intervals = 2
  /\ poll.refreshes = 2

\* C18: every poll tick leaves the snapshot the re-read of room metadata
\* gives, and invokes the vault-changed callback once if the page count
\* after the re-read differs from the one before it and not at all if it
\* is the same.
C18_CallbackIffCountChanged ==
  [][\A metadata \in ReadOutcomes("meta") :
       pollTick(metadata)
         => /\ cachedVaultData' = rereadSnapshot(metadata)
            /\ pageCount(cachedVaultData') # pageCount(cachedVaultData)
                 => poll'.callbacks = poll.callbacks + 1
            /\ pageCount(cachedVaultData') = pageCount(cachedVaultData)
                 => poll'.callbacks = poll.callbacks]_vars

\* Two polls have run, one changed the page count and one did not.
C18_Witness ==
  /\ poll.refreshes = 2
  /\ poll.callbacks = 1
  /\ isVaultAvailable

--------------------------------------------------------------------------
\* The freemium tier: tier.js, TierService, UsageTracker and
\* AppController._sendMessage

\* FREE_DAILY_LIMIT of the tier function (DEFAULT_TIER has the same limit).
FREE_DAILY_LIMIT == 10

DEFAULT_TIER == [tier |-> "free", dailyLimit |-> 10]

\* JavaScript values that are a string or undefined.
Undefined == [defined |-> FALSE, value |-> ""]

Str(value) == [defined |-> TRUE, value |-> value]

Truthy(x) == x.defined /\ x.value # ""

\* process.env.PATREON_PREMIUM_TOKEN on the server, and the token of the
\* plugin's settings (configService.getPatreonToken(), '' when unset).
Secrets == { Undefined, Str(""), Str("s3cret") }

PatreonTokens == { "", "s3cret", "wrong" }

\* The request getTier sends: the token goes in the query string if it is
\* not empty.
tierRequest(token) ==
  [httpMethod |-> "GET",
   query |-> IF token # "" THEN Str(token) ELSE Undefined,
   header |-> Undefined]

\* exports.handler of tier.js with "isPremium = Boolean(token)".
handler_anyToken(event, premiumSecret) ==
  IF event.httpMethod = "OPTIONS"
  THEN [statusCode |-> 200, tier |-> "", dailyLimit |-> 0]
  ELSE IF event.httpMethod # "GET"
  THEN [statusCode |-> 405, tier |-> "", dailyLimit |-> 0]
  ELSE LET token == IF Truthy(event.query) THEN event.query ELSE event.header
           isPremium == Truthy(token)
       IN [statusCode |-> 200,
           tier |-> IF isPremium THEN "premium" ELSE "free",
           dailyLimit |-> FREE_DAILY_LIMIT]

\* exports.handler of tier.js: status and body of the answer.
handler(event, premiumSecret) ==
  IF event.httpMethod = "OPTIONS"
  THEN [statusCode |-> 200, tier |-> "", dailyLimit |-> 0]
  ELSE IF event.httpMethod # "GET"
  THEN [statusCode |-> 405, tier |-> "", dailyLimit |-> 0]
  ELSE LET token == IF Truthy(event.query) THEN event.query ELSE event.header
           isPremium == Truthy(premiumSecret) /\ Truthy(token)
                          /\ token = premiumSecret
       IN [statusCode |-> 200,
           tier |-> IF isPremium THEN "premium" ELSE "free",
           dailyLimit |-> FREE_DAILY_LIMIT]

\* getTier after its fetch settled: this._cached, and the tier it returns.
\* outcome "fail" is a rejected fetch or an answer that is not ok.
fetchedTier(outcome, token, premiumSecret) ==
  LET res == handler(tierRequest(token), premiumSecret)
  IN IF outcome = "ok" /\ res.statusCode = 200
     THEN LET cached == [present |-> TRUE,
                         tier |-> IF res.tier # "" THEN res.tier ELSE "free",
                         dailyLimit |-> res.dailyLimit,
                         fresh |-> TRUE]
          IN [cached |-> cached, tier |-> cached.tier,
              dailyLimit |-> cached.dailyLimit]
     ELSE [cached |-> tierCached, tier |-> DEFAULT_TIER.tier,
           dailyLimit |-> DEFAULT_TIER.dailyLimit]

\* getTier answers from the cache: this._cached && Date.now() < _cacheExpiry
cacheHit == tierCached.present /\ tierCached.fresh

\* TierService.canSendMessage(usedToday, dailyLimit) with this._cached = cached
canSendMessage(cached, used, dailyLimit) ==
  IF ~cached.present THEN TRUE
  ELSE IF cached.tier = "premium" THEN TRUE
  ELSE used < dailyLimit

\* chatPanel.appendLoading(), assigned to this._loadingEl: one more element
\* with data-loading="true".
appendLoading == [loadingEl |-> "div", loadingMsgs |-> loadingMsgs + 1]

\* The display of the result of apiService.chat: the placeholder
\* this._loadingEl names becomes the message and _loadingEl null; without
\* one, removeLoading() removes the first placeholder there is and the
\* message is appended.
showResult ==
  IF loadingEl # "null"
  THEN [loadingEl |-> "null", loadingMsgs |-> loadingMsgs - 1]
  ELSE [loadingEl |-> loadingEl,
        loadingMsgs |-> IF loadingMsgs > 0 THEN loadingMsgs - 1 ELSE 0]

\* The _sendMessage invocations that have not yet counted their message.
sending == { s \in Sends : sends[s].pc \in {"tier", "chat"} }

\* _sendMessage() up to its first fetch: with a fresh cached tier the check
\* of the limit follows at once and the message goes to the backend or the
\* notice is shown; otherwise getTier fetches the tier.
sendMessage(s) ==
  /\ sends[s].pc = "idle"
  /\ \A t \in Sends : t < s => sends[t].pc # "idle"
  /\ ~inputDisabled
  /\ usedToday + Cardinality(sending) < MaxUsed
  /\ IF cacheHit
     THEN IF canSendMessage(tierCached, usedToday, tierCached.dailyLimit)
          THEN /\ sends' = [sends EXCEPT ![s] = [pc |-> "chat", used |-> 0,
                                                 tier |-> tierCached.tier]]
               /\ limitNotice' = FALSE
               /\ inputDisabled' = TRUE
               /\ loadingEl' = appendLoading.loadingEl
               /\ loadingMsgs' = appendLoading.loadingMsgs
          ELSE /\ limitNotice' = TRUE
               /\ UNCHANGED << sends, inputDisabled, loadingEl, loadingMsgs >>
     ELSE /\ sends' = [sends EXCEPT ![s] = [pc |-> "tier", used |-> usedToday,
                                            tier |-> "free"]]
          /\ limitNotice' = FALSE
          /\ UNCHANGED << inputDisabled, loadingEl, loadingMsgs >>
  /\ UNCHANGED << vaultVars, pollVars, chatVars, serviceVars, usedToday, tierCached, refreshing >>

\* _sendMessage() that is refused before any request: without text it
\* returns at once; without a valid backend URL it hides the notice shown
\* and shows the one that asks for the URL.
sendMessage_refused(text, hasValidApiBase) ==
  /\ ~inputDisabled
  /\ text = "" \/ ~hasValidApiBase
  /\ limitNotice' = IF text = "" THEN limitNotice ELSE FALSE
  /\ UNCHANGED << vaultVars, pollVars, chatVars, serviceVars, usedToday, tierCached, sends,
                  refreshing, inputDisabled, loadingEl, loadingMsgs >>

\* The fetch of getTier settles in _sendMessage: the limit is checked with
\* the usage count read before the fetch.
sendMessage_getTier(s, outcome, token, premiumSecret) ==
  /\ sends[s].pc = "tier"
  /\ LET tierInfo == fetchedTier(outcome, token, premiumSecret)
     IN /\ tierCached' = tierInfo.cached
        /\ IF canSendMessage(tierInfo.cached, sends[s].used, tierInfo.dailyLimit)
           THEN /\ sends' = [sends EXCEPT ![s] = [pc |-> "chat", used |-> 0,
                                                  tier |-> tierInfo.tier]]
                /\ inputDisabled' = TRUE
                /\ loadingEl' = appendLoading.loadingEl
                /\ loadingMsgs' = appendLoading.loadingMsgs
                /\ UNCHANGED limitNotice
           ELSE /\ sends' = [sends EXCEPT ![s] = IdleSend]
                /\ limitNotice' = TRUE
                /\ UNCHANGED << inputDisabled, loadingEl, loadingMsgs >>
  /\ UNCHANGED << vaultVars, pollVars, chatVars, serviceVars, usedToday, refreshing >>

\* sendMessage_chat without "this.chatPanel.setInputDisabled(false)".
sendMessage_chat_staysDisabled(s, ok) ==
  /\ sends[s].pc = "chat"
  /\ usedToday' = IF ok THEN usedToday + 1 ELSE usedToday
  /\ inputDisabled' = inputDisabled
  /\ loadingEl' = showResult.loadingEl
  /\ loadingMsgs' = showResult.loadingMsgs
  /\ sends' = [sends EXCEPT ![s] = IdleSend]
  /\ refreshing' = (refreshing \/ ~cacheHit)
  /\ UNCHANGED << vaultVars, pollVars, chatVars, serviceVars, tierCached, limitNotice >>

\* sendMessage_chat with incrementUsedToday() after every result.
sendMessage_chat_countAll(s, ok) ==
  /\ sends[s].pc = "chat"
  /\ usedToday' = usedToday + 1
  /\ inputDisabled' = FALSE
  /\ loadingEl' = showResult.loadingEl
  /\ loadingMsgs' = showResult.loadingMsgs
  /\ sends' = [sends EXCEPT ![s] = IdleSend]
  /\ refreshing' = (refreshing \/ ~cacheHit)
  /\ UNCHANGED << vaultVars, pollVars, chatVars, serviceVars, tierCached, limitNotice >>

\* apiService.chat settles: the input is enabled, the answer or the error
\* takes the place of a placeholder, a good answer is counted with
\* incrementUsedToday(); then _refreshTier() runs up to its fetch, if the
\* cached tier does not answer it.
sendMessage_chat(s, ok) ==
  /\ sends[s].pc = "chat"
  /\ usedToday' = IF ok THEN usedToday + 1 ELSE usedToday
  /\ inputDisabled' = FALSE
  /\ loadingEl' = showResult.loadingEl
  /\ loadingMsgs' = showResult.loadingMsgs
  /\ sends' = [sends EXCEPT ![s] = IdleSend]
  /\ refreshing' = (refreshing \/ ~cacheHit)
  /\ UNCHANGED << vaultVars, pollVars, chatVars, serviceVars, tierCached, limitNotice >>

\* The settings panel closes: tierService.invalidateCache(), then
\* _refreshTier() up to its fetch.
saveAndClose ==
  /\ tierCached' = NoTier
  /\ refreshing' = TRUE
  /\ UNCHANGED << vaultVars, pollVars, chatVars, serviceVars, usedToday, sends, limitNotice,
                  inputDisabled, loadingEl, loadingMsgs >>

\* The fetch of a _refreshTier() settles; more tells whether another one
\* is still awaiting its own.
refreshTier(outcome, token, premiumSecret, more) ==
  /\ refreshing
  /\ tierCached' = fetchedTier(outcome, token, premiumSecret).cached
  /\ refreshing' = more
  /\ UNCHANGED << vaultVars, pollVars, chatVars, serviceVars, usedToday, sends, limitNotice,
                  inputDisabled, loadingEl, loadingMsgs >>

\* Five minutes pass since the tier was cached (CACHE_TTL_MS).
cacheExpires ==
  /\ cacheHit
  /\ tierCached' = [tierCached EXCEPT !.fresh = FALSE]
  /\ UNCHANGED << vaultVars, pollVars, chatVars, serviceVars, usedToday, sends, refreshing,
                  limitNotice, inputDisabled, loadingEl, loadingMsgs >>

NextTier ==
  \/ \E s \in Sends : sendMessage(s)
  \/ \E text \in Texts, hasValidApiBase \in BOOLEAN :
       sendMessage_refused(text, hasValidApiBase)
  \/ \E s \in Sends, token \in PatreonTokens, premiumSecret \in Secrets :
       sendMessage_getTier(s, "ok", token, premiumSecret)
  \/ \E s \in Sends : sendMessage_getTier(s, "fail", "", Undefined)
  \/ \E s \in Sends, ok \in BOOLEAN : sendMessage_chat(s, ok)
  \/ saveAndClose
  \/ \E token \in PatreonTokens, premiumSecret \in Secrets, more \in BOOLEAN :
       refreshTier("ok", token, premiumSecret, more)
  \/ \E more \in BOOLEAN : refreshTier("fail", "", Undefined, more)
  \/ cacheExpires

SpecTier == InitAt("wait") /\ [][NextTier]_vars

\* C19: a _sendMessage invocation for which getTier returned the free tier
\* sends its message to the backend only while the day's usage count is
\* below the daily limit, and the count such an invocation writes never
\* exceeds the limit, however sends and tier lookups interleave.
C19_FreeLimitHolds ==
  [][\A s \in Sends :
       /\ (sends[s].pc # "chat" /\ sends'[s].pc = "chat"
             /\ sends'[s].tier = "free")
            => usedToday < FREE_DAILY_LIMIT
       /\ (sends[s].pc = "chat" /\ sends[s].tier = "free"
             /\ usedToday' # usedToday)
            => usedToday' <= FREE_DAILY_LIMIT]_vars

\* A fetch of getTier settles in this step, in _sendMessage or in
\* _refreshTier, and caches the answer of the endpoint to the plugin token
\* token under the server secret premiumSecret.
LookupAnswered(token, premiumSecret) ==
  /\ \/ refreshing
     \/ \E s \in Sends : sends[s].pc = "tier" /\ sends'[s].pc # "tier"
  /\ tierCached'.present /\ tierCached'.fresh
  /\ tierCached' = fetchedTier("ok", token, premiumSecret).cached

--------------------------------------------------------------------------
\* The requester test of the full-vault listener (revision "wait")

\* The pending wait was resolved with true by a reply on the channel.
ResolvedBy(event) ==
  /\ pendingRequest' = NoCall
  /\ calls'[pendingRequest].pc = "done"
  /\ calls'[pendingRequest].result = "true"
  /\ calls'[pendingRequest].events = Append(calls[pendingRequest].events, event)
  /\ \A d \in Calls \ {pendingRequest} : calls'[d] = calls[d]

--------------------------------------------------------------------------
\* Overlapping requestVaultFromGM calls (revision "wait")

\* C22: overlapping requestVaultFromGM calls are resolved independently.
\* The expiry of the timer of one call leaves a pending wait owned by
\* another call in place, and a reply that resolves a wait resolves with
\* true every call that is still waiting, since each of them got a matching
\* reply before its own timeout.
C22_OverlappingCallsIndependent ==
  /\ [][\A c \in Calls :
          (~TimedOut(c) /\ TimedOut(c)'
             /\ pendingRequest # NoCall /\ pendingRequest # c)
            => pendingRequest' = pendingRequest]_vars
  /\ [][(\E d \in Calls : ~RepliedTo(d) /\ RepliedTo(d)')
          => \A c \in Calls :
               calls[c].pc = "waiting"
                 => (calls'[c].pc = "done" /\ calls'[c].result = "true")]_vars

--------------------------------------------------------------------------
\* Listener registration

\* C23: listener registration is idempotent.  However many times init ran,
\* each of the two inbound broadcast channels has at most one registered
\* handler, so one message is parsed at most once; the handlers are there
\* exactly when _isListening is set.
C23_AtMostOneHandler ==
  /\ handlers.full <= 1
  /\ handlers.visible <= 1
  /\ isListening <=> (handlers.full = 1 /\ handlers.visible = 1)

\* The second init(obr) has gone through _setupBroadcastListeners again.
C23_Witness ==
  /\ initCount = 2
  /\ initPc = "getMetadata"
  /\ isListening
  /\ handlers = [full |-> 1, visible |-> 1]

--------------------------------------------------------------------------
\* The _sendMessage that sends the vault context

\* The "Save" button of the settings: _saveSettingsFromUI() stores the
\* state of the "use vault" checkbox with setUseVault, then the tier cache
\* is invalidated and _refreshTier() runs up to its fetch.
Vc_saveSettings(checked) ==
  /\ useVault' = checked
  /\ tierCached' = NoTier
  /\ refreshing' = TRUE
  /\ UNCHANGED << vaultVars, pollVars, serviceVars, usedToday, sends, limitNotice,
                  inputDisabled, loadingEl, loadingMsgs, chatPc, chatRequest,
                  chatCount >>

\* The body ApiService.chat gives to fetch: options.vaultContext || ''.
chatBody(vaultContext) == [sent |-> TRUE, vaultContext |-> vaultContext]

\* Vc_sendMessage with the vault context of every available vault.
Vc_sendMessage_ignoreSetting(text, hasValidApiBase) ==
  /\ chatPc = "idle"
  /\ ~inputDisabled
  /\ chatCount < MaxChats
  /\ IF text = ""
     THEN UNCHANGED << limitNotice, inputDisabled, loadingEl, loadingMsgs,
                       chatPc, chatRequest, chatCount >>
     ELSE IF ~hasValidApiBase
     THEN /\ limitNotice' = FALSE
          /\ UNCHANGED << inputDisabled, loadingEl, loadingMsgs, chatPc,
                          chatRequest, chatCount >>
     ELSE /\ limitNotice' = FALSE
          /\ inputDisabled' = TRUE
          /\ loadingEl' = appendLoading.loadingEl
          /\ loadingMsgs' = appendLoading.loadingMsgs
          /\ chatRequest' = chatBody(IF isVaultAvailable
                                     THEN getVaultSummary(getVaultData)
                                     ELSE "")
          /\ chatPc' = "chat"
          /\ chatCount' = chatCount + 1
  /\ UNCHANGED << vaultVars, pollVars, serviceVars, usedToday, tierCached, sends,
                  refreshing, useVault >>

\* _sendMessage() up to "await this.apiService.chat": nothing happens
\* without text; without a valid backend URL only the notice changes;
\* otherwise the input is disabled, the placeholder appended and the request
\* sent, with the vault summary as vaultContext if the setting is on and
\* the vault available.
Vc_sendMessage(text, hasValidApiBase) ==
  /\ chatPc = "idle"
  /\ ~inputDisabled
  /\ chatCount < MaxChats
  /\ IF text = ""
     THEN UNCHANGED << limitNotice, inputDisabled, loadingEl, loadingMsgs,
                       chatPc, chatRequest, chatCount >>
     ELSE IF ~hasValidApiBase
     THEN /\ limitNotice' = FALSE
          /\ UNCHANGED << inputDisabled, loadingEl, loadingMsgs, chatPc,
                          chatRequest, chatCount >>
     ELSE /\ limitNotice' = FALSE
          /\ inputDisabled' = TRUE
          /\ loadingEl' = appendLoading.loadingEl
          /\ loadingMsgs' = appendLoading.loadingMsgs
          /\ chatRequest' = chatBody(IF useVault /\ isVaultAvailable
                                     THEN getVaultSummary(getVaultData)
                                     ELSE "")
          /\ chatPc' = "chat"
          /\ chatCount' = chatCount + 1
  /\ UNCHANGED << vaultVars, pollVars, serviceVars, usedToday, tierCached, sends,
                  refreshing, useVault >>

\* apiService.chat settles: the input is enabled, the result shown, a reply
\* counted, and _refreshTier() runs up to its fetch.
Vc_sendMessage_chat(ok) ==
  /\ chatPc = "chat"
  /\ inputDisabled' = FALSE
  /\ loadingEl' = showResult.loadingEl
  /\ loadingMsgs' = showResult.loadingMsgs
  /\ usedToday' = IF ok THEN usedToday + 1 ELSE usedToday
  /\ refreshing' = (refreshing \/ ~cacheHit)
  /\ chatPc' = "idle"
  /\ UNCHANGED << vaultVars, pollVars, serviceVars, tierCached, sends, limitNotice,
                  useVault, chatRequest, chatCount >>

NextChat ==
  \/ Rm_init
  \/ Rm_init_getId
  \/ Rm_init_getName
  \/ \E metadata \in ReadOutcomes("meta") : Rm_init_loadFromRoomMetadata(metadata)
  \/ \E config \in Payloads : Rm_onResponseFullVault(config)
  \/ \E config \in Payloads : Rm_onVisiblePages(config)
  \/ \E checked \in BOOLEAN : Vc_saveSettings(checked)
  \/ \E text \in Texts, hasValidApiBase \in BOOLEAN :
       Vc_sendMessage(text, hasValidApiBase)
  \/ \E ok \in BOOLEAN : Vc_sendMessage_chat(ok)

SpecChat == InitAt("meta") /\ [][NextChat]_vars

\* C24: the vault summary goes into a chat request only when the use-vault
\* setting is on and the vault is available at the moment the message is
\* sent.  The request a _sendMessage sends carries the summary of the
\* snapshot of that moment if both hold, and it is not empty then; in every
\* other state it carries the empty string; what happens to the setting or
\* to the vault while the request is under way does not change it.
C24_VaultContextOnlyIfEnabled ==
  /\ [][(chatPc = "idle" /\ chatPc' = "chat") =>
          /\ chatRequest'.sent
          /\ IF useVault /\ cachedVaultData.present
                /\ cachedVaultData.pages # <<>>
             THEN /\ chatRequest'.vaultContext = getVaultSummary(cachedVaultData)
                  /\ chatRequest'.vaultContext # ""
             ELSE chatRequest'.vaultContext = ""]_vars
  /\ [][chatPc' = chatPc => chatRequest' = chatRequest]_vars

\* A request is under way that carries the summary of the vault.
C24_Witness ==
  /\ chatPc = "chat"
  /\ useVault
  /\ isVaultAvailable
  /\ chatRequest.sent
  /\ chatRequest.vaultContext = getVaultSummary(cachedVaultData)
  /\ chatRequest.vaultContext # ""

--------------------------------------------------------------------------
\* The daily usage counter

\* Invocation s ends its chat request in this step.
ChatEnds(s) == sends[s].pc = "chat" /\ sends'[s].pc = "idle"

--------------------------------------------------------------------------
\* The end of a _sendMessage

\* The chat request of every _sendMessage settles: fetch resolves or
\* rejects, and ApiService.chat returns in both cases.
FairSpecTier ==
  SpecTier /\ \A s \in Sends : WF_vars(\E ok \in BOOLEAN : sendMessage_chat(s, ok))

\* The _sendMessage invocations that disabled the input and await their
\* chat request.
chatting == { s \in Sends : sends[s].pc = "chat" }

\* C26: every _sendMessage that disables the input ends, and it ends with
\* the input enabled, _loadingEl null and one loading placeholder less,
\* whether its request gave a reply or an error.  There are as many
\* loading placeholders as requests under way, so none is left behind, and
\* the input is disabled only while a request is under way: it is never left
\* disabled.
C26_InputEnabledAgain ==
  /\ \A s \in Sends : (sends[s].pc = "chat") ~> (sends[s].pc = "idle")
  /\ inputDisabled ~> ~inputDisabled
  /\ [][\A s \in Sends :
          ChatEnds(s) => /\ ~inputDisabled'
                         /\ loadingEl' = "null"
                         /\ loadingMsgs' = loadingMsgs - 1]_vars
  /\ [](/\ loadingMsgs = Cardinality(chatting)
        /\ inputDisabled => chatting # {}
        /\ loadingEl # "null" => chatting # {})

\* A request ended with its result shown: nothing is under way, the input
\* is enabled and no placeholder is left.
C26_Witness ==
  /\ usedToday = 1
  /\ chatting = {}
  /\ ~inputDisabled
  /\ loadingEl = "null"
  /\ loadingMsgs = 0

--------------------------------------------------------------------------
\* ApiService.chat

\* configService.getApiBaseUrl() with the trailing slashes removed.
BaseUrls == { "", "https://host" }

\* What fetch and the body of the answer can be.  fetch rejects (with an
\* Error that has a message or none) or resolves with a status, ok or not;
\* the body does not parse, or parses to null or to an object data with the
\* fields error, message, limitReached, content and, if choices[0].message
\* is there, its content.
Statuses == { "200", "500" }

ErrorFields ==
  { JsUndefined, JsString(""), JsString("bad request"),
    JsObject("rate limited", ""), JsObject("", "E42"), JsObject("", "") }

ContentFields == { JsUndefined, JsString(""), JsString("  "), JsString(" hi "), JsNumber }

Rejections ==
  [fetch : {"reject"}, rejectMessage : {"", "Failed to fetch"},
   status : {"200"}, json : {"unparsable"}, error : {JsUndefined},
   message : {JsUndefined}, limitReached : {FALSE}, hasChoice : {FALSE},
   choiceContent : {JsUndefined}, content : {JsUndefined}]

BadBodies ==
  [fetch : {"resolve"}, rejectMessage : {""},
   status : Statuses, json : {"unparsable", "null"}, error : {JsUndefined},
   message : {JsUndefined}, limitReached : {FALSE}, hasChoice : {FALSE},
   choiceContent : {JsUndefined}, content : {JsUndefined}]

Bodies ==
  [fetch : {"resolve"}, rejectMessage : {""},
   status : Statuses, json : {"object"}, error : ErrorFields,
   message : {JsUndefined, JsString("not allowed")},
   limitReached : BOOLEAN, hasChoice : {FALSE},
   choiceContent : {JsUndefined}, content : ContentFields]
  \cup
  [fetch : {"resolve"}, rejectMessage : {""},
   status : Statuses, json : {"object"}, error : ErrorFields,
   message : {JsUndefined}, limitReached : BOOLEAN, hasChoice : {TRUE},
   choiceContent : ContentFields, content : {JsUndefined, JsString(" hi ")}]

Responses == Rejections \cup BadBodies \cup Bodies

\* String.prototype.trim on the strings of the model.
trim(value) ==
  CASE value = "  " -> ""
    [] value = " hi " -> "hi"
    [] OTHER -> value

\* An object chat returns, and an exception that leaves it.
returns(content, error) ==
  [returned |-> TRUE, raised |-> FALSE, content |-> content, error |-> error]

raises == [returned |-> FALSE, raised |-> TRUE, content |-> JsUndefined,
           error |-> JsUndefined]

\* The body of the try block once fetch resolved: threw tells that it
\* throws (a TypeError, which has a message) instead of returning.
chatTry(response) ==
  LET data == response
      thrown == [threw |-> TRUE, result |-> NoApiResult]
      done(result) == [threw |-> FALSE, result |-> result]
  IN IF response.json = "null"
     THEN thrown                             \* data.error of null
     ELSE LET error == IF response.json = "object" THEN data.error ELSE JsUndefined
              message == IF response.json = "object" THEN data.message ELSE JsUndefined
              limitReached == response.json = "object" /\ data.limitReached
              hasChoice == response.json = "object" /\ data.hasChoice
              dataContent == IF response.json = "object" THEN data.content ELSE JsUndefined
          IN IF response.status # "200"
             THEN done(returns(JsString(""),
                         JsOr(error, JsOr(message,
                                JsString("Error " \o response.status)))))
             ELSE IF limitReached
             THEN done(returns(JsString(""), JsString("Message limit reached.")))
             ELSE IF JsTruthy(error)
             THEN done(returns(JsString(""),
                         IF error.kind = "string" THEN error
                         ELSE IF error.message # "" THEN JsString(error.message)
                         ELSE IF error.code # "" THEN JsString(error.code)
                         ELSE JsString("Server error")))
             ELSE LET content == IF hasChoice THEN data.choiceContent
                                 ELSE JsOr(dataContent, JsString(""))
                      text == JsOr(content, JsString(""))
                  IN IF text.kind # "string"
                     THEN thrown             \* (content || '').trim of a number
                     ELSE done(returns(JsString(trim(text.value)), JsUndefined))

\* The catch block: { content: '', error: e.message || 'Connection error.' }
chatCatch(message) ==
  returns(JsString(""),
          JsString(IF message # "" THEN message ELSE "Connection error."))

\* chat without its try/catch: what throws inside leaves the call.
chat_noCatch(base, response) ==
  IF base = ""
  THEN returns(JsString(""),
               JsString("Configure the backend URL in Settings (gear icon)."))
  ELSE IF response.fetch = "reject"
  THEN raises
  ELSE IF chatTry(response).threw
  THEN raises
  ELSE chatTry(response).result

\* ApiService.chat(messages, options) with the base URL base, when fetch
\* and the body behave as response tells.
chat(base, response) ==
  IF base = ""
  THEN returns(JsString(""),
               JsString("Configure the backend URL in Settings (gear icon)."))
  ELSE IF response.fetch = "reject"
  THEN chatCatch(response.rejectMessage)
  ELSE IF chatTry(response).threw
  THEN chatCatch("Cannot read properties")
  ELSE chatTry(response).result

\* A call of ApiService.chat runs to its end.
ApiService_chat(base, response) ==
  /\ apiCall' = [made |-> TRUE, base |-> base, response |-> response]
  /\ apiResult' = chat(base, response)
  /\ UNCHANGED << vaultVars, pollVars, tierVars, chatVars, proxyVars,
                  historyVars >>

NextApi == \E base \in BaseUrls, response \in Responses : ApiService_chat(base, response)

SpecApi == InitAt("wait") /\ [][NextApi]_vars

\* C27: ApiService.chat never raises.  Whatever the base URL, fetch and the
\* body are, the call returns an object whose content is a string, and
\* whenever its error is set (not undefined) the content is the empty
\* string.
C27_ChatNeverRaises ==
  apiCall.made =>
    /\ apiResult.returned
    /\ ~apiResult.raised
    /\ apiResult.content.kind = "string"
    /\ apiResult.error.kind # "undefined" => apiResult.content.value = ""

\* The body parsed to null on a call with a base URL: reading data.error
\* threw inside the try block and the call returned the error.
C27_Witness ==
  /\ apiCall.made
  /\ apiCall.base # ""
  /\ apiCall.response.fetch = "resolve"
  /\ apiCall.response.json = "null"
  /\ apiResult.returned
  /\ apiResult.error.kind = "string"
  /\ apiResult.content = JsString("")

--------------------------------------------------------------------------
\* The chat proxy (netlify/functions/chat.js)

FALLBACK_MODEL == "gpt-4o-mini"

HttpMethods == { "OPTIONS", "GET", "POST" }

EventBodies == { "invalid", "noMessages", "notArray", "emptyMessages", "ok" }

\* body.model: absent, the fallback model, another model, or ''.
Models == { JsUndefined, JsString("gpt-4o-mini"), JsString("gpt-4"), JsString("") }

\* process.env.OPENAI_API_KEY ("" where it is not set)
ApiKeys == { "", "sk-server" }

ProxyEvents ==
  { ProxyEvent(httpMethod, body, model) :
      httpMethod \in HttpMethods, body \in EventBodies, model \in Models }

\* The answers of the upstream service: fetch rejects, or resolves with a
\* status that is ok or not and a body that does not parse, parses to null
\* or is an object whose error is one of UpstreamErrors.
UpstreamErrors ==
  { JsUndefined, JsString("oops"),
    JsObject("The Model gpt-9 does not exist", ""),
    JsObject("", "model_not_found"),
    JsObject("Rate limit reached", "rate_limit"),
    JsObject("", "") }

Answers ==
  [fetch : {"reject"}, ok : {FALSE}, json : {""}, error : {JsUndefined}]
  \cup [fetch : {"resolve"}, ok : BOOLEAN, json : {"unparsable", "null"},
        error : {JsUndefined}]
  \cup [fetch : {"resolve"}, ok : BOOLEAN, json : {"object"},
        error : UpstreamErrors]

\* String.prototype.toLowerCase on the messages of the model.
toLowerCase(value) ==
  CASE value = "The Model gpt-9 does not exist" -> "the model gpt-9 does not exist"
    [] value = "Rate limit reached" -> "rate limit reached"
    [] OTHER -> value

\* value.includes('model')
includesModel(value) == value \in { "the model gpt-9 does not exist", "model" }

\* const { model = 'gpt-4o-mini' } = body
requestedModel(event) ==
  IF event.model.kind = "undefined" THEN "gpt-4o-mini" ELSE event.model.value

\* !res.ok && (data.error?.code === 'model_not_found'
\*             || data.error?.message?.toLowerCase().includes('model'))
isModelError(answer) ==
  /\ ~answer.ok
  /\ answer.json = "object"
  /\ answer.error.kind = "object"
  /\ \/ answer.error.code = "model_not_found"
     \/ /\ answer.error.message # ""
        /\ includesModel(toLowerCase(answer.error.message))

\* Reading data.error throws: the body parsed to null.
answerThrows(answer) == answer.fetch = "reject" \/ answer.json = "null"

\* exports.handler(event) up to its first await: the checks of the
\* method, of the server key and of the body, then the first upstream call
\* with the model of the body.
chat_handler(event, apiKey) ==
  /\ proxy.pc \in {"idle", "done"}
  /\ LET ends(statusCode) ==
           [pc |-> "done", event |-> event, apiKey |-> apiKey,
            calls |-> << >>, first |-> NoAnswer, statusCode |-> statusCode]
     IN proxy' =
          IF event.httpMethod = "OPTIONS" THEN ends(200)
          ELSE IF event.httpMethod # "POST" THEN ends(405)
          ELSE IF apiKey = "" THEN ends(500)
          ELSE IF event.body = "invalid" THEN ends(400)
          ELSE IF event.body # "ok" THEN ends(400)
          ELSE [pc |-> "first", event |-> event, apiKey |-> apiKey,
                calls |-> << requestedModel(event) >>, first |-> NoAnswer,
                statusCode |-> 0]
  /\ UNCHANGED << vaultVars, pollVars, tierVars, chatVars, apiVars,
                  historyVars >>

\* chat_handler_first with the retry after every answer that is not ok.
chat_handler_first_retryAll(answer) ==
  /\ proxy.pc = "first"
  /\ proxy' =
       IF answerThrows(answer)
       THEN [proxy EXCEPT !.pc = "done", !.first = answer, !.statusCode = 200]
       ELSE IF ~answer.ok
       THEN [proxy EXCEPT !.pc = "second", !.first = answer,
                          !.calls = Append(@, FALLBACK_MODEL)]
       ELSE [proxy EXCEPT !.pc = "done", !.first = answer, !.statusCode = 200]
  /\ UNCHANGED << vaultVars, pollVars, tierVars, chatVars, apiVars,
                  historyVars >>

\* The first upstream call settles with answer: after a model error for a
\* model that is not the fallback model the fallback model is called;
\* otherwise the answer, or the error caught, is returned with status 200.
chat_handler_first(answer) ==
  /\ proxy.pc = "first"
  /\ proxy' =
       IF answerThrows(answer)
       THEN [proxy EXCEPT !.pc = "done", !.first = answer, !.statusCode = 200]
       ELSE IF isModelError(answer) /\ requestedModel(proxy.event) # FALLBACK_MODEL
       THEN [proxy EXCEPT !.pc = "second", !.first = answer,
                          !.calls = Append(@, FALLBACK_MODEL)]
       ELSE [proxy EXCEPT !.pc = "done", !.first = answer, !.statusCode = 200]
  /\ UNCHANGED << vaultVars, pollVars, tierVars, chatVars, apiVars,
                  historyVars >>

\* The call of the fallback model settles: its answer, or the error
\* caught, is returned with status 200.
chat_handler_second(answer) ==
  /\ proxy.pc = "second"
  /\ proxy' = [proxy EXCEPT !.pc = "done", !.statusCode = 200]
  /\ UNCHANGED << vaultVars, pollVars, tierVars, chatVars, apiVars,
                  historyVars >>

NextProxy ==
  \/ \E event \in ProxyEvents, apiKey \in ApiKeys : chat_handler(event, apiKey)
  \/ \E answer \in Answers : chat_handler_first(answer)
  \/ \E answer \in Answers : chat_handler_second(answer)

SpecProxy == InitAt("wait") /\ [][NextProxy]_vars

\* The request is one that validation rejects.
RejectedByValidation ==
  \/ proxy.event.httpMethod # "POST"
  \/ proxy.apiKey = ""
  \/ proxy.event.body \in {"invalid", "noMessages", "notArray", "emptyMessages"}

\* The first upstream call failed with a model error: the answer was not
\* ok and its error names the model, by its code or in its message.
FirstFailedWithModelError ==
  /\ proxy.first.fetch = "resolve"
  /\ ~proxy.first.ok
  /\ \/ proxy.first.error.code = "model_not_found"
     \/ proxy.first.error.message = "The Model gpt-9 does not exist"

\* C28: the chat proxy calls the upstream service at most twice per
\* request.  The first call uses the requested model; a second call is made
\* only after the first failed with a model error and the requested model
\* is not the fallback model, and it uses the fallback model; there is no
\* third call.  A request that validation rejects (method not POST, server
\* key missing, invalid JSON, no messages) makes no upstream call.
C28_AtMostTwoUpstreamCalls ==
  /\ Len(proxy.calls) <= 2
  /\ proxy.pc # "idle" /\ RejectedByValidation => proxy.calls = << >>
  /\ Len(proxy.calls) >= 1 =>
       proxy.calls[1] = (IF proxy.event.model = JsUndefined THEN "gpt-4o-mini"
                         ELSE proxy.event.model.value)
  /\ Len(proxy.calls) = 2 =>
       /\ proxy.calls[2] = FALLBACK_MODEL
       /\ proxy.calls[1] # FALLBACK_MODEL
       /\ FirstFailedWithModelError
  /\ proxy.pc = "second" <=> (Len(proxy.calls) = 2 /\ proxy.statusCode = 0)

\* A request for another model ended after the model error of the first
\* call and the call of the fallback model.
C28_Witness ==
  /\ proxy.pc = "done"
  /\ proxy.calls = << "gpt-4", "gpt-4o-mini" >>
  /\ proxy.first.error.code = "model_not_found"
  /\ proxy.statusCode = 200

--------------------------------------------------------------------------
\* ChatService (the message history)

MAX_MESSAGES_IN_CONTEXT == 30

\* The text of the next message: the place it takes in the history.
NextText == ToString(Len(messages) + 1)

\* The messages flagged as errors in the history.
errorCount == Cardinality({ i \in 1..Len(messages) : messages[i].isError })

lastRole == IF messages = << >> THEN "none" ELSE messages[Len(messages)].role

\* addUserMessage(content), called by _sendMessage for a new question.
addUserMessage(content) ==
  /\ lastRole \in {"none", "assistant"}
  /\ Len(messages) < MaxHistory
  /\ messages' = Append(messages, [role |-> "user", content |-> trim(content),
                                   isError |-> FALSE])
  /\ UNCHANGED << vaultVars, pollVars, tierVars, chatVars, apiVars, proxyVars >>

\* addAssistantMessage(content), called with the reply to the question.
addAssistantMessage(content) ==
  /\ lastRole = "user"
  /\ Len(messages) < MaxHistory
  /\ messages' = Append(messages, [role |-> "assistant",
                                   content |-> trim(content),
                                   isError |-> FALSE])
  /\ UNCHANGED << vaultVars, pollVars, tierVars, chatVars, apiVars, proxyVars >>

\* addErrorMessage(content), called with the error of the request: an
\* empty user message, then the error as a flagged assistant message.
addErrorMessage(content) ==
  /\ lastRole = "user"
  /\ Len(messages) + 1 < MaxHistory
  /\ errorCount < MaxErrors
  /\ messages' = messages \o
       << [role |-> "user", content |-> "", isError |-> FALSE],
          [role |-> "assistant",
           content |-> IF content # "" THEN content ELSE "Error desconocido.",
           isError |-> TRUE] >>
  /\ UNCHANGED << vaultVars, pollVars, tierVars, chatVars, apiVars, proxyVars >>

\* clear()
clear ==
  /\ messages' = << >>
  /\ UNCHANGED << vaultVars, pollVars, tierVars, chatVars, apiVars, proxyVars >>

\* list.slice(-n)
sliceLast(list, n) ==
  IF Len(list) > n THEN SubSeq(list, Len(list) - n + 1, Len(list)) ELSE list

\* list.map(m => ({ role: m.role, content: m.content }))
apiFormat(list) ==
  [i \in 1..Len(list) |-> [role |-> list[i].role, content |-> list[i].content]]

\* getApiMessages without the filter.
getApiMessages_unfiltered(systemContent) ==
  (IF systemContent # ""
   THEN << [role |-> "system", content |-> systemContent] >> ELSE << >>)
    \o sliceLast(apiFormat(messages), MAX_MESSAGES_IN_CONTEXT)

\* getApiMessages(systemContent); systemContent is "" where it is undefined.
getApiMessages(systemContent) ==
  (IF systemContent # ""
   THEN << [role |-> "system", content |-> systemContent] >> ELSE << >>)
    \o sliceLast(
         apiFormat(SelectSeq(messages,
                             LAMBDA m : \/ m.role = "user"
                                        \/ m.role = "assistant" /\ ~m.isError)),
         MAX_MESSAGES_IN_CONTEXT)

NextHistory ==
  \/ addUserMessage(NextText)
  \/ addAssistantMessage(NextText)
  \/ \E content \in { "", NextText } : addErrorMessage(content)
  \/ clear

SpecHistory == InitAt("wait") /\ [][NextHistory]_vars

\* The places of the history messages that are not flagged as errors, and
\* those of the 30 most recent of them.
Unflagged == { i \in 1..Len(messages) : ~messages[i].isError }

Recent == { i \in Unflagged : Cardinality({ k \in Unflagged : k >= i }) <= 30 }

SystemContents == { "", "You are a rules assistant." }

====
